---- MODULE Spec2Model ----
(***************************************************************************)
(* Verification model of the B-roll + TTS pipeline                         *)
(* (src/broll_tts_generator).                                              *)
(*                                                                         *)
(*  Spec          one run of generate_broll_video_with_tts (main.py),      *)
(*                including the two worker-pool phases of                  *)
(*                generate_all_broll_videos (video_generator.py).          *)
(*  SpecBatch     generate_all_broll_videos called on its own.             *)
(*  SpecPoll      poll_task_until_complete over query_task_status          *)
(*                (video_generator.py) with an explicit clock.             *)
(*  SpecMusicPoll _poll_for_completion (music_generator.py) with an        *)
(*                explicit clock.                                          *)
(*  SpecSubmit    the response handling of create_sora2_task and of the    *)
(*                submission part of generate_music.                       *)
(*  SpecRun       a run from its entry point (main or a direct call of    *)
(*                the orchestrator): credentials, remote requests and      *)
(*                stages, with the batch and the assembly as single calls. *)
(*  SpecCombine   combine_broll_with_audio (video_combiner.py) step by     *)
(*                step, called by the orchestrator or directly.            *)
(*  SpecMain      main() (main.py): its early returns, the single run or   *)
(*                the concurrent runs of --all-prompts with the files they *)
(*                write in the shared output directory, and its exit code. *)
(*  SpecFair      Spec with every possible step eventually taken.          *)
(*  SpecPollFair  SpecPoll with every possible step eventually taken.      *)
(*                                                                         *)
(* Scene indices are 0-based as in the source.  A file path is modelled by *)
(* the scene number the code embeds in the file name (scene_index + 1).    *)
(***************************************************************************)
EXTENDS Integers, Sequences, FiniteSets, TLC

VARIABLES
    pc,              \* position of the orchestrator (main thread)
    results,         \* set of keys present in the results dict
    error,           \* value of results["error"], NoError when absent
    args,            \* arguments of the run: dry_run, max_workers, num_scenes
    product_exists,  \* os.path.exists(product_image_path)
    scenes,          \* script_data["scenes"]: sequence of include_product flags
    img,             \* state of each product-image future
    img_result,      \* return value of each product-image work item
    image_urls,      \* image_urls / image_paths dict: scene index -> value
    job,             \* state of each clip future
    job_result,      \* return value of each clip work item
    executed,        \* number of times each clip work item was run
    submits,         \* number of createTask submissions per scene
    modes,           \* argument each clip work item was called with
    broll_paths,     \* pre-allocated slot list, None = NoneVal
    broll_list,      \* the filtered list returned to the orchestrator
    poll,            \* state of poll_task_until_complete
    mpoll,           \* state of _poll_for_completion
    sub,             \* state of a job submission
    run,             \* state of a command-line or library run (credentials)
    comb,            \* state of combine_broll_with_audio and of its call
    cli              \* state of main() and of the runs it starts

orchVars  == <<pc, results, error, args, product_exists, scenes>>
batchVars == <<img, img_result, image_urls, job, job_result, executed,
               submits, modes, broll_paths, broll_list>>
auxVars   == <<poll, mpoll, sub, run, comb, cli>>
vars      == <<pc, results, error, args, product_exists, scenes,
               img, img_result, image_urls, job, job_result, executed,
               submits, modes, broll_paths, broll_list, poll, mpoll, sub,
               run, comb, cli>>

----------------------------------------------------------------------------
(* Bounds of the model *)

MaxScenes      == 3    \* scenes of a script in a whole run (Spec)
MaxBatchScenes == 4    \* scenes of a uniform script in a batch alone
MaxWorkers     == 2    \* largest max_workers argument

(* Program constants *)

ImageWorkers == 3

----------------------------------------------------------------------------
(* Values *)

NoneVal      == 0        \* Python None
NoError      == "none"
ProductImage == -1       \* product_image_path used as placeholder image
Idle         == [pc |-> "idle"]

N       == Len(scenes)
Indices == 0 .. (N - 1)

include_product(i) == scenes[i + 1]

\* the file name of scene i carries the scene number i + 1
PathOf(i) == i + 1

MaxStamp == 1    \* the seconds a timestamp is drawn from: 0 .. MaxStamp

Timestamps == 0 .. MaxStamp

\* product_placement_scene{scene_index+1}_{timestamp}.png
product_image_file(scene_index, timestamp) ==
    [name |-> "product_placement_scene", prompt |-> 0,
     scene |-> scene_index + 1, stamp |-> timestamp]

generate_broll_video_file_no_scene(scene_index, timestamp) ==
    [name |-> "broll_scene", prompt |-> 0, scene |-> 0, stamp |-> timestamp]

\* generate_broll_video: broll_scene{scene_index}_{timestamp}.mp4, where
\* scene_index is the argument of the function
generate_broll_video_file(scene_index, timestamp) ==
    [name |-> "broll_scene", prompt |-> 0, scene |-> scene_index,
     stamp |-> timestamp]

\* _create_video_from_image_dry_run: broll_scene{scene_index+1}_{timestamp}.mp4
dry_run_video_file(scene_index, timestamp) ==
    [name |-> "broll_scene", prompt |-> 0, scene |-> scene_index + 1,
     stamp |-> timestamp]

\* the file the clip work item of scene i writes: _generate_single_broll_video
\* calls generate_broll_video with scene_index + 1
clip_file(i, dry_run, timestamp) ==
    IF dry_run THEN dry_run_video_file(i, timestamp)
    ELSE generate_broll_video_file(i + 1, timestamp)

Slots == 0 .. ((IF MaxScenes > MaxBatchScenes THEN MaxScenes
                ELSE MaxBatchScenes) - 1)

EmptySlots == [i \in Slots |-> NoneVal]
NoState    == [i \in Slots |-> "none"]
Zeroes     == [i \in Slots |-> 0]

RECURSIVE SeqsOfLen(_)
SeqsOfLen(n) ==
    IF n = 0 THEN {<<>>}
    ELSE {Append(s, b) : s \in SeqsOfLen(n - 1), b \in BOOLEAN}

Scripts      == UNION {SeqsOfLen(n) : n \in 0 .. MaxScenes}

\* scripts in which every scene, or no scene, shows the product
UniformScripts(n) == {[k \in 1 .. n |-> b] : b \in BOOLEAN}

\* the scripts a batch alone is run on: every script of up to MaxScenes
\* scenes and the uniform scripts of up to MaxBatchScenes scenes
BatchScripts ==
    Scripts \cup UNION {UniformScripts(n) : n \in 0 .. MaxBatchScenes}

----------------------------------------------------------------------------
(* Thread pools *)

Min(a, b) == IF a < b THEN a ELSE b

scenes_with_product == {i \in Indices : include_product(i)}

Running(f) == {i \in Indices : f[i] = "running"}
Queued(f)  == {i \in Indices : f[i] = "queued"}

\* ThreadPoolExecutor hands queued work items to its threads in FIFO order
NextQueued(f) == CHOOSE i \in Queued(f) : \A k \in Queued(f) : i <= k

PoolHasIdleThreadUnbounded(f, max_workers) == TRUE

\* a pool of max_workers threads runs at most max_workers items at a time
PoolHasIdleThread(f, max_workers) == Cardinality(Running(f)) < max_workers

FinishFutureCancelSiblings(f, i) ==
    [k \in DOMAIN f |->
       IF k = i THEN "done"
       ELSE IF f[k] = "queued" THEN "collected" ELSE f[k]]

\* the future of item i completes; no other future is touched
FinishFuture(f, i) == [f EXCEPT ![i] = "done"]

SlotForArrivalOrder(scene_index, slots) ==
    CHOOSE k \in DOMAIN slots :
      /\ slots[k] = NoneVal
      /\ \A m \in DOMAIN slots : m < k => slots[m] # NoneVal

SlotForFirst(scene_index, slots) == 0

\* as_completed loop body: broll_paths[scene_index] = video_path
SlotFor(scene_index, slots) == scene_index

\* broll_paths = [path for path in broll_paths if path is not None]
RECURSIVE FilterNone(_, _)
FilterNone(slots, n) ==
    IF n = 0 THEN <<>>
    ELSE IF slots[n - 1] = NoneVal THEN FilterNone(slots, n - 1)
         ELSE Append(FilterNone(slots, n - 1), slots[n - 1])

----------------------------------------------------------------------------
(* Initial state: the call of generate_broll_video_with_tts *)

Init ==
    /\ pc = "start"
    /\ results = {}
    /\ error = NoError
    /\ args \in [dry_run : BOOLEAN, max_workers : 0 .. MaxWorkers,
                 num_scenes : 0 .. MaxScenes]
    /\ product_exists \in BOOLEAN
    /\ scenes = <<>>
    /\ img = NoState
    /\ img_result = EmptySlots
    /\ image_urls = EmptySlots
    /\ job = NoState
    /\ job_result = EmptySlots
    /\ executed = Zeroes
    /\ submits = Zeroes
    /\ modes = EmptySlots
    /\ broll_paths = EmptySlots
    /\ broll_list = <<>>
    /\ poll = Idle
    /\ mpoll = Idle
    /\ sub = Idle
    /\ run = Idle
    /\ comb = Idle
    /\ cli = Idle

----------------------------------------------------------------------------
(* generate_broll_video_with_tts *)

\* the except clause of the orchestrator: results["error"] = str(e); return
Fail(msg) ==
    /\ error' = msg
    /\ results' = results \cup {"error"}
    /\ pc' = "returned"

\* os.makedirs(output_dir) and the creation of the results dict; outside try
MakeOutputDir ==
    /\ pc = "start"
    /\ \E ok \in BOOLEAN :
         IF ok
         THEN /\ pc' = "bg"
              /\ results' = {"timestamp", "output_dir", "topic"}
                              \cup (IF args.dry_run THEN {"dry_run"} ELSE {})
         ELSE /\ pc' = "raised"
              /\ results' = results
    /\ UNCHANGED <<error, args, product_exists, scenes>>
    /\ UNCHANGED batchVars
    /\ UNCHANGED auxVars

\* Step 0: optional background removal, failure caught locally
RemoveBackground ==
    /\ pc = "bg"
    /\ \E remove_bg \in BOOLEAN, ok \in BOOLEAN :
         IF remove_bg /\ ok /\ product_exists
         THEN results' = results \cup {"bg_removed_image_path"}
         ELSE results' = results
    /\ pc' = "script"
    /\ UNCHANGED <<error, args, product_exists, scenes>>
    /\ UNCHANGED batchVars
    /\ UNCHANGED auxVars

scene_count_any(script, num_scenes) == TRUE

\* the validation of generate_broll_script: the number of scenes of the
\* answer is the number requested
scene_count_ok(script, num_scenes) == Len(script) = num_scenes

\* Step 1: generate_broll_script and the script dump.  s is the script the
\* service answered with; the first branch is any other failure of the call.
GenerateScript ==
    /\ pc = "script"
    /\ \/ /\ Fail("script")
          /\ UNCHANGED scenes
       \/ \E s \in Scripts :
            IF scene_count_ok(s, args.num_scenes)
              THEN /\ scenes' = s
                   /\ results' = results \cup {"script_path", "script"}
                   /\ pc' = "tts"
                   /\ UNCHANGED error
              ELSE /\ Fail("scene_count")
                   /\ UNCHANGED scenes
    /\ UNCHANGED <<args, product_exists>>
    /\ UNCHANGED batchVars
    /\ UNCHANGED auxVars

\* Step 2: generate_tts_audio
GenerateTTS ==
    /\ pc = "tts"
    /\ \/ Fail("tts")
       \/ /\ results' = results \cup {"tts_audio_path"}
          /\ pc' = "music"
          /\ UNCHANGED error
    /\ UNCHANGED <<args, product_exists, scenes>>
    /\ UNCHANGED batchVars
    /\ UNCHANGED auxVars

\* Step 2.5: optional background music, failure caught locally
GenerateMusic ==
    /\ pc = "music"
    /\ \E enable_music \in BOOLEAN, music_prompt \in BOOLEAN, ok \in BOOLEAN :
         IF enable_music /\ music_prompt /\ ok
         THEN results' = results \cup {"background_music_path"}
         ELSE results' = results
    /\ pc' = "broll"
    /\ UNCHANGED <<error, args, product_exists, scenes>>
    /\ UNCHANGED batchVars
    /\ UNCHANGED auxVars

----------------------------------------------------------------------------
(* generate_all_broll_videos: product-image phase (both modes) *)

AllCollectedNoWait(f, S) == TRUE

\* the as_completed loop is exhausted and the with-block has joined the pool
AllCollected(f, S) == \A i \in S : f[i] = "collected"

\* dry run: scenes without a generated image use the product image, if any
Placeholders(paths) ==
    IF args.dry_run /\ product_exists
    THEN [i \in DOMAIN paths |->
            IF i \in Indices /\ paths[i] = NoneVal THEN ProductImage
            ELSE paths[i]]
    ELSE paths

\* entry of generate_all_broll_videos up to the submission of the image jobs
BeginImagePhase ==
    /\ pc = "broll"
    /\ IF scenes_with_product # {}
       THEN /\ img' = [i \in DOMAIN img |->
                         IF i \in scenes_with_product THEN "queued"
                         ELSE img[i]]
            /\ pc' = "images"
            /\ UNCHANGED image_urls
       ELSE /\ image_urls' = Placeholders(image_urls)
            /\ pc' = "pool"
            /\ UNCHANGED img
    /\ UNCHANGED <<results, error, args, product_exists, scenes>>
    /\ UNCHANGED <<img_result, job, job_result, executed, submits, modes,
                   broll_paths, broll_list>>
    /\ UNCHANGED auxVars

\* a pool thread takes the next queued image work item
ImageStart(i) ==
    /\ pc = "images"
    /\ Queued(img) # {}
    /\ i = NextQueued(img)
    /\ PoolHasIdleThread(img, Min(Cardinality(scenes_with_product),
                                  ImageWorkers))
    /\ img' = [img EXCEPT ![i] = "running"]
    /\ UNCHANGED orchVars
    /\ UNCHANGED <<img_result, image_urls, job, job_result, executed, submits,
                   modes, broll_paths, broll_list>>
    /\ UNCHANGED auxVars

\* _generate_product_image_and_upload / _generate_product_image_local:
\* returns the url (path) of the image of scene i, or None on any exception
ImageFinish(i) ==
    /\ pc = "images"
    /\ img[i] = "running"
    /\ \E ok \in BOOLEAN :
         img_result' = [img_result EXCEPT ![i] =
                          IF ok /\ product_exists THEN PathOf(i) ELSE NoneVal]
    /\ img' = FinishFuture(img, i)
    /\ UNCHANGED orchVars
    /\ UNCHANGED <<image_urls, job, job_result, executed, submits, modes,
                   broll_paths, broll_list>>
    /\ UNCHANGED auxVars

\* as_completed loop of the image phase (main thread)
ImageCollect(i) ==
    /\ pc = "images"
    /\ img[i] = "done"
    /\ img' = [img EXCEPT ![i] = "collected"]
    /\ image_urls' = IF img_result[i] # NoneVal
                     THEN [image_urls EXCEPT ![i] = img_result[i]]
                     ELSE image_urls
    /\ UNCHANGED orchVars
    /\ UNCHANGED <<img_result, job, job_result, executed, submits, modes,
                   broll_paths, broll_list>>
    /\ UNCHANGED auxVars

\* end of the with-block of the image pool (shutdown waits for all threads)
EndImagePhase ==
    /\ pc = "images"
    /\ AllCollected(img, scenes_with_product)
    /\ image_urls' = Placeholders(image_urls)
    /\ pc' = "pool"
    /\ UNCHANGED <<results, error, args, product_exists, scenes>>
    /\ UNCHANGED <<img, img_result, job, job_result, executed, submits, modes,
                   broll_paths, broll_list>>
    /\ UNCHANGED auxVars

----------------------------------------------------------------------------
(* generate_all_broll_videos: clip phase *)

ClipArgumentOfFirstScene(i) ==
    IF args.dry_run
    THEN (IF image_urls[0] # NoneVal THEN image_urls[0] ELSE ProductImage)
    ELSE (IF include_product(i) THEN image_urls[0] ELSE NoneVal)

\* the image argument the clip work item of scene i is submitted with
ClipArgument(i) ==
    IF args.dry_run
    THEN (IF image_urls[i] # NoneVal THEN image_urls[i] ELSE ProductImage)
    ELSE (IF include_product(i) THEN image_urls[i] ELSE NoneVal)

\* creation of the clip pool and submission of one work item per scene
BeginClipPhase ==
    /\ pc = "pool"
    /\ IF args.max_workers <= 0
       THEN /\ Fail("pool")
            /\ UNCHANGED <<job, modes>>
       ELSE /\ job' = [i \in DOMAIN job |->
                         IF i \in Indices THEN "queued" ELSE job[i]]
            /\ modes' = [i \in DOMAIN modes |->
                           IF i \in Indices THEN ClipArgument(i) ELSE modes[i]]
            /\ pc' = "clips"
            /\ UNCHANGED <<results, error>>
    /\ UNCHANGED <<args, product_exists, scenes>>
    /\ UNCHANGED <<img, img_result, image_urls, job_result, executed, submits,
                   broll_paths, broll_list>>
    /\ UNCHANGED auxVars

calls_video_api_always(dry_run) == TRUE

\* the branch "if dry_run:" of generate_all_broll_videos: only outside a
\* dry run is the work item _generate_single_broll_video, which submits a
\* createTask request and polls it
calls_video_api(dry_run) == ~dry_run

\* a pool thread takes the next queued clip work item; in normal mode the
\* item starts with its createTask submission
ClipStart(i) ==
    /\ pc = "clips"
    /\ Queued(job) # {}
    /\ i = NextQueued(job)
    /\ PoolHasIdleThread(job, args.max_workers)
    /\ job' = [job EXCEPT ![i] = "running"]
    /\ executed' = [executed EXCEPT ![i] = @ + 1]
    /\ submits' = IF calls_video_api(args.dry_run)
                    THEN [submits EXCEPT ![i] = @ + 1]
                    ELSE submits
    /\ UNCHANGED orchVars
    /\ UNCHANGED <<img, img_result, image_urls, job_result, modes,
                   broll_paths, broll_list>>
    /\ UNCHANGED auxVars

\* the image a dry-run clip is made from exists on disk
ImageAvailable(i) == modes[i] # ProductImage \/ product_exists

\* _generate_single_broll_video / _create_video_from_image_dry_run:
\* returns the path of the clip of scene i, or None on any exception
ClipFinish(i) ==
    /\ pc = "clips"
    /\ job[i] = "running"
    /\ \E ok \in BOOLEAN :
         job_result' = [job_result EXCEPT ![i] =
                          IF ok /\ (args.dry_run => ImageAvailable(i))
                          THEN PathOf(i) ELSE NoneVal]
    /\ job' = FinishFuture(job, i)
    /\ UNCHANGED orchVars
    /\ UNCHANGED <<img, img_result, image_urls, executed, submits, modes,
                   broll_paths, broll_list>>
    /\ UNCHANGED auxVars

\* as_completed loop of the clip phase (main thread)
ClipCollect(i) ==
    /\ pc = "clips"
    /\ job[i] = "done"
    /\ job' = [job EXCEPT ![i] = "collected"]
    /\ broll_paths' = IF job_result[i] # NoneVal
                      THEN [broll_paths EXCEPT ![SlotFor(i, broll_paths)] =
                              job_result[i]]
                      ELSE broll_paths
    /\ UNCHANGED orchVars
    /\ UNCHANGED <<img, img_result, image_urls, job_result, executed, submits,
                   modes, broll_list>>
    /\ UNCHANGED auxVars

\* end of the with-block of the clip pool, filtering and return
EndClipPhase ==
    /\ pc = "clips"
    /\ AllCollected(job, Indices)
    /\ broll_list' = FilterNone(broll_paths, N)
    /\ results' = results \cup {"broll_paths"}
    /\ pc' = "check"
    /\ UNCHANGED <<error, args, product_exists, scenes>>
    /\ UNCHANGED <<img, img_result, image_urls, job, job_result, executed,
                   submits, modes, broll_paths>>
    /\ UNCHANGED auxVars

----------------------------------------------------------------------------
(* generate_broll_video_with_tts, after the batch *)

NoClipsNever(paths) == FALSE

\* not broll_paths
NoClips(paths) == paths = <<>>

\* if not broll_paths: raise Exception("No B-roll videos were generated ...")
CheckClips ==
    /\ pc = "check"
    /\ IF NoClips(broll_list)
       THEN Fail("no_broll")
       ELSE /\ pc' = "combine"
            /\ UNCHANGED <<results, error>>
    /\ UNCHANGED <<args, product_exists, scenes>>
    /\ UNCHANGED batchVars
    /\ UNCHANGED auxVars

\* Step 4: combine_broll_with_audio
Combine ==
    /\ pc = "combine"
    /\ \/ Fail("combine")
       \/ /\ results' = results \cup {"final_video_path"}
          /\ pc' = "upload"
          /\ UNCHANGED error
    /\ UNCHANGED <<args, product_exists, scenes>>
    /\ UNCHANGED batchVars
    /\ UNCHANGED auxVars

\* optional upload (upload_to_supabase returns None on failure) and return
Upload ==
    /\ pc = "upload"
    /\ \E upload_supabase \in BOOLEAN, ok \in BOOLEAN :
         IF upload_supabase /\ ok
         THEN results' = results \cup {"supabase_url"}
         ELSE results' = results
    /\ pc' = "returned"
    /\ UNCHANGED <<error, args, product_exists, scenes>>
    /\ UNCHANGED batchVars
    /\ UNCHANGED auxVars

Next ==
    \/ MakeOutputDir
    \/ RemoveBackground
    \/ GenerateScript
    \/ GenerateTTS
    \/ GenerateMusic
    \/ BeginImagePhase
    \/ \E i \in Slots : ImageStart(i)
    \/ \E i \in Slots : ImageFinish(i)
    \/ \E i \in Slots : ImageCollect(i)
    \/ EndImagePhase
    \/ BeginClipPhase
    \/ \E i \in Slots : ClipStart(i)
    \/ \E i \in Slots : ClipFinish(i)
    \/ \E i \in Slots : ClipCollect(i)
    \/ EndClipPhase
    \/ CheckClips
    \/ Combine
    \/ Upload

Spec == Init /\ [][Next]_vars

\* every thread of the run (the main thread and the threads of the pools)
\* keeps running, and every request and tool run it waits for returns: a
\* step that can be taken is eventually taken
SpecFair == Spec /\ WF_vars(Next)

----------------------------------------------------------------------------
(* generate_all_broll_videos called on its own with any script *)

InitBatch ==
    /\ pc = "broll"
    /\ results = {"timestamp", "output_dir", "topic"}
    /\ error = NoError
    /\ args \in [dry_run : BOOLEAN, max_workers : 0 .. MaxWorkers]
    /\ product_exists \in BOOLEAN
    /\ scenes \in BatchScripts
    /\ img = NoState
    /\ img_result = EmptySlots
    /\ image_urls = EmptySlots
    /\ job = NoState
    /\ job_result = EmptySlots
    /\ executed = Zeroes
    /\ submits = Zeroes
    /\ modes = EmptySlots
    /\ broll_paths = EmptySlots
    /\ broll_list = <<>>
    /\ poll = Idle
    /\ mpoll = Idle
    /\ sub = Idle
    /\ run = Idle
    /\ comb = Idle
    /\ cli = Idle

NextBatch ==
    \/ BeginImagePhase
    \/ \E i \in Slots : ImageStart(i)
    \/ \E i \in Slots : ImageFinish(i)
    \/ \E i \in Slots : ImageCollect(i)
    \/ EndImagePhase
    \/ BeginClipPhase
    \/ \E i \in Slots : ClipStart(i)
    \/ \E i \in Slots : ClipFinish(i)
    \/ \E i \in Slots : ClipCollect(i)
    \/ EndClipPhase

SpecBatch == InitBatch /\ [][NextBatch]_vars

----------------------------------------------------------------------------
(* Remote job client for video tasks: query_task_status and               *)
(* poll_task_until_complete, with time as an integer clock                 *)

MaxTimeout   == 3    \* largest timeout argument, in clock ticks
MaxInterval  == 2    \* largest poll_interval argument, in clock ticks
MaxQueryTime == 1    \* longest time one status query takes, in clock ticks

Absent == -1         \* a missing JSON field

NoResponse == [http |-> Absent, code |-> Absent, state |-> "absent",
               failMsg |-> "absent", failCode |-> "absent"]

\* answers of the recordInfo endpoint: an HTTP error, an HTTP 200 envelope
\* with an embedded error code (or none), or a status payload
VideoResponses ==
    {r \in [http : {200, 404, 500}, code : {Absent, 200, 500},
            state : {"absent", "waiting", "generating", "success", "fail"},
            failMsg : {"absent", "quota"}, failCode : {"absent", "501"}] :
       /\ (r.http # 200 => r.code = Absent)
       /\ (r.code # 200 => r.state = "absent")
       /\ (r.state # "fail" => r.failMsg = "absent" /\ r.failCode = "absent")}

\* response.raise_for_status()
RaisesForStatus(http) == http >= 400 /\ http < 600

\* query_task_status raises instead of returning the data of the response
QueryRaises(api_key, r) ==
    \/ ~api_key
    \/ RaisesForStatus(r.http)
    \/ r.code # 200

\* status_data.get("failMsg", "Unknown error"), .get("failCode", "Unknown")
FailText(r) ==
    <<IF r.failMsg = "absent" THEN "Unknown error" ELSE r.failMsg,
      IF r.failCode = "absent" THEN "Unknown" ELSE r.failCode>>

TimedOutInclusive(elapsed, timeout) == elapsed >= timeout

TimedOutLate(elapsed, timeout) == elapsed > timeout + 1

\* if elapsed > timeout: raise Exception("Timeout waiting for ...")
TimedOut(elapsed, timeout) == elapsed > timeout

InitPoll ==
    /\ pc = "poll"
    /\ results = {}
    /\ error = NoError
    /\ args = [dry_run |-> FALSE, max_workers |-> 1]
    /\ product_exists = TRUE
    /\ scenes = <<>>
    /\ img = NoState
    /\ img_result = EmptySlots
    /\ image_urls = EmptySlots
    /\ job = NoState
    /\ job_result = EmptySlots
    /\ executed = Zeroes
    /\ submits = Zeroes
    /\ modes = EmptySlots
    /\ broll_paths = EmptySlots
    /\ broll_list = <<>>
    /\ \E key \in BOOLEAN, t \in 0 .. MaxTimeout, p \in 1 .. MaxInterval :
         poll = [pc |-> "top", api_key |-> key, timeout |-> t,
                 poll_interval |-> p, now |-> 0, elapsed |-> 0,
                 queries |-> 0, notfound |-> 0, last |-> NoResponse,
                 out |-> "none", msg |-> <<"", "">>]
    /\ mpoll = Idle
    /\ sub = Idle
    /\ run = Idle
    /\ comb = Idle
    /\ cli = Idle

\* top of the loop: elapsed = time.time() - start_time and the timeout test
PollLoopTop ==
    /\ poll.pc = "top"
    /\ poll' = IF TimedOut(poll.now, poll.timeout)
               THEN [poll EXCEPT !.elapsed = poll.now, !.pc = "raised",
                                 !.out = "timeout"]
               ELSE [poll EXCEPT !.elapsed = poll.now, !.pc = "query"]
    /\ UNCHANGED <<orchVars, batchVars, mpoll, sub, run, comb, cli>>

\* one status query, taking d ticks, and the dispatch on its state
PollQuery ==
    /\ poll.pc = "query"
    /\ \E r \in VideoResponses, d \in 0 .. MaxQueryTime :
         LET q == [poll EXCEPT !.now = @ + d, !.queries = @ + 1,
                               !.notfound = IF r.http = 404 THEN @ + 1 ELSE @,
                               !.last = r]
         IN  poll' =
               IF QueryRaises(poll.api_key, r)
               THEN [q EXCEPT !.pc = "raised", !.out = "query_error"]
               ELSE IF r.state = "success"
               THEN [q EXCEPT !.pc = "returned", !.out = "success"]
               ELSE IF r.state = "fail"
               THEN [q EXCEPT !.pc = "raised", !.out = "failed",
                              !.msg = FailText(r)]
               ELSE [q EXCEPT !.pc = "sleep"]
    /\ UNCHANGED <<orchVars, batchVars, mpoll, sub, run, comb, cli>>

\* time.sleep(poll_interval)
PollSleep ==
    /\ poll.pc = "sleep"
    /\ poll' = [poll EXCEPT !.now = @ + poll.poll_interval, !.pc = "top"]
    /\ UNCHANGED <<orchVars, batchVars, mpoll, sub, run, comb, cli>>

NextPoll ==
    \/ PollLoopTop
    \/ PollQuery
    \/ PollSleep

SpecPoll == InitPoll /\ [][NextPoll]_vars

\* the poller is one thread that keeps running: every status query returns
\* and every sleep ends
SpecPollFair == SpecPoll /\ WF_vars(NextPoll)

----------------------------------------------------------------------------
(* Music task polling: _poll_for_completion                                *)

TransportError == 0    \* requests.get raised a RequestException

MusicFailStatuses == {"failed", "error", "fail", "TEXT_FAIL"}

\* answers of the record-info endpoint; suno tells what sunoData[0] holds
MusicResponses ==
    {r \in [http : {TransportError, 200, 404, 500},
            code : {Absent, 0, 200, 500},
            status : {"absent", "PENDING", "TEXT_SUCCESS"}
                       \cup MusicFailStatuses,
            suno : {"none", "nourl", "stream", "source"}] :
       /\ (r.http # 200 => r.code = Absent)
       /\ (r.http # 200 \/ r.code = 500 => r.status = "absent")
       /\ (r.status # "TEXT_SUCCESS" => r.suno = "none")}

\* error_code and error_code != 200
EmbeddedError(code) == code # Absent /\ code # 0 /\ code # 200

\* track.get("streamAudioUrl") or track.get("sourceStreamAudioUrl")
AudioUrl(r) ==
    IF r.suno = "stream" THEN "streamAudioUrl"
    ELSE IF r.suno = "source" THEN "sourceStreamAudioUrl"
    ELSE "none"

MusicHandleServerErrorFatal(r) ==
    IF r.http = TransportError THEN "continue"
    ELSE IF r.http = 200
    THEN (IF EmbeddedError(r.code) THEN "raise"
          ELSE IF r.status = "TEXT_SUCCESS"
          THEN (IF AudioUrl(r) # "none" THEN "return" ELSE "raise")
          ELSE IF r.status \in MusicFailStatuses THEN "raise"
          ELSE "continue")
    ELSE IF r.http = 404 THEN "continue"
    ELSE "raise"

MusicHandleNotFoundFatal(r) ==
    IF r.http = 404 THEN "raise"
    ELSE IF r.http # 200 THEN "continue"
    ELSE IF EmbeddedError(r.code) THEN "raise"
    ELSE IF r.status = "TEXT_SUCCESS"
    THEN (IF AudioUrl(r) # "none" THEN "return" ELSE "raise")
    ELSE IF r.status \in MusicFailStatuses THEN "raise"
    ELSE "continue"

\* body of the polling loop: what one answer makes the function do
MusicHandle(r) ==
    IF r.http = TransportError THEN "continue"
    ELSE IF r.http = 200
    THEN (IF EmbeddedError(r.code) THEN "raise"
          ELSE IF r.status = "TEXT_SUCCESS"
          THEN (IF AudioUrl(r) # "none" THEN "return" ELSE "raise")
          ELSE IF r.status \in MusicFailStatuses THEN "raise"
          ELSE "continue")
    ELSE IF r.http = 404 THEN "continue"
    ELSE "continue"

NoMusicResponse == [http |-> Absent, code |-> Absent, status |-> "absent",
                    suno |-> "none"]

InitMusicPoll ==
    /\ pc = "music_poll"
    /\ results = {}
    /\ error = NoError
    /\ args = [dry_run |-> FALSE, max_workers |-> 1]
    /\ product_exists = TRUE
    /\ scenes = <<>>
    /\ img = NoState
    /\ img_result = EmptySlots
    /\ image_urls = EmptySlots
    /\ job = NoState
    /\ job_result = EmptySlots
    /\ executed = Zeroes
    /\ submits = Zeroes
    /\ modes = EmptySlots
    /\ broll_paths = EmptySlots
    /\ broll_list = <<>>
    /\ poll = Idle
    /\ \E t \in 0 .. MaxTimeout, p \in 1 .. MaxInterval :
         mpoll = [pc |-> "top", max_wait_time |-> t, poll_interval |-> p,
                  now |-> 0, requests |-> 0, notfound |-> 0,
                  last |-> NoMusicResponse, out |-> "none", url |-> "none"]
    /\ sub = Idle
    /\ run = Idle
    /\ comb = Idle
    /\ cli = Idle

\* while time.time() - start_time < max_wait_time, else raise TimeoutError
MusicLoopTest ==
    /\ mpoll.pc = "top"
    /\ mpoll' = IF mpoll.now < mpoll.max_wait_time
                THEN [mpoll EXCEPT !.pc = "request"]
                ELSE [mpoll EXCEPT !.pc = "raised", !.out = "timeout"]
    /\ UNCHANGED <<orchVars, batchVars, poll, sub, run, comb, cli>>

\* one status request, taking d ticks, and the handling of its answer
MusicRequest ==
    /\ mpoll.pc = "request"
    /\ \E r \in MusicResponses, d \in 0 .. MaxQueryTime :
         LET q == [mpoll EXCEPT !.now = @ + d, !.requests = @ + 1,
                                !.notfound = IF r.http = 404 THEN @ + 1 ELSE @,
                                !.last = r]
             h == MusicHandle(r)
         IN  mpoll' =
               IF h = "return"
               THEN [q EXCEPT !.pc = "returned", !.out = "success",
                              !.url = AudioUrl(r)]
               ELSE IF h = "raise"
               THEN [q EXCEPT !.pc = "raised", !.out = "error"]
               ELSE [q EXCEPT !.pc = "sleep"]
    /\ UNCHANGED <<orchVars, batchVars, poll, sub, run, comb, cli>>

\* time.sleep(poll_interval)
MusicSleep ==
    /\ mpoll.pc = "sleep"
    /\ mpoll' = [mpoll EXCEPT !.now = @ + mpoll.poll_interval, !.pc = "top"]
    /\ UNCHANGED <<orchVars, batchVars, poll, sub, run, comb, cli>>

NextMusicPoll ==
    \/ MusicLoopTest
    \/ MusicRequest
    \/ MusicSleep

SpecMusicPoll == InitMusicPoll /\ [][NextMusicPoll]_vars

----------------------------------------------------------------------------
(* Job submission: create_sora2_task and the submission of generate_music  *)

Raised == [out |-> "error", task_id |-> NoneVal]

\* answers of the createTask / generate endpoints; taskId NoneVal when the
\* body carries no (or an empty) taskId
SubmitResponses ==
    [http : {200, 201, 404, 500}, code : {Absent, 0, 200, 500},
     taskId : {NoneVal, 1}]

\* create_sora2_task: raise_for_status, then code, then taskId
create_sora2_task(api_key, r) ==
    IF ~api_key THEN Raised
    ELSE IF RaisesForStatus(r.http) THEN Raised
    ELSE IF r.code # 200 THEN Raised
    ELSE IF r.taskId = NoneVal THEN Raised
    ELSE [out |-> "task_id", task_id |-> r.taskId]

generate_music_submit_no_code_check(api_key, r) ==
    IF ~api_key THEN Raised
    ELSE IF r.http # 200 THEN Raised
    ELSE IF r.taskId = NoneVal THEN Raised
    ELSE [out |-> "task_id", task_id |-> r.taskId]

\* generate_music up to the task id: status_code, then code, then taskId
generate_music_submit(api_key, r) ==
    IF ~api_key THEN Raised
    ELSE IF r.http # 200 THEN Raised
    ELSE IF EmbeddedError(r.code) THEN Raised
    ELSE IF r.taskId = NoneVal THEN Raised
    ELSE [out |-> "task_id", task_id |-> r.taskId]

InitSubmit ==
    /\ pc = "submit"
    /\ results = {}
    /\ error = NoError
    /\ args = [dry_run |-> FALSE, max_workers |-> 1]
    /\ product_exists = TRUE
    /\ scenes = <<>>
    /\ img = NoState
    /\ img_result = EmptySlots
    /\ image_urls = EmptySlots
    /\ job = NoState
    /\ job_result = EmptySlots
    /\ executed = Zeroes
    /\ submits = Zeroes
    /\ modes = EmptySlots
    /\ broll_paths = EmptySlots
    /\ broll_list = <<>>
    /\ poll = Idle
    /\ mpoll = Idle
    /\ run = Idle
    /\ comb = Idle
    /\ cli = Idle
    /\ \E key \in BOOLEAN, r \in SubmitResponses :
         sub = [pc |-> "call", api_key |-> key, resp |-> r, kind |-> "none",
                out |-> "none", task_id |-> NoneVal]

\* a video submission receiving the answer sub.resp
SubmitVideo ==
    /\ sub.pc = "call"
    /\ LET res == create_sora2_task(sub.api_key, sub.resp)
       IN  sub' = [sub EXCEPT !.pc = "done", !.kind = "video",
                              !.out = res.out, !.task_id = res.task_id]
    /\ UNCHANGED <<orchVars, batchVars, poll, mpoll, run, comb, cli>>

\* a music submission receiving the answer sub.resp
SubmitMusic ==
    /\ sub.pc = "call"
    /\ LET res == generate_music_submit(sub.api_key, sub.resp)
       IN  sub' = [sub EXCEPT !.pc = "done", !.kind = "music",
                              !.out = res.out, !.task_id = res.task_id]
    /\ UNCHANGED <<orchVars, batchVars, poll, mpoll, run, comb, cli>>

NextSubmit ==
    \/ SubmitVideo
    \/ SubmitMusic

SpecSubmit == InitSubmit /\ [][NextSubmit]_vars

----------------------------------------------------------------------------
(* Properties of the run and of the batch *)

\* the clip jobs that returned a path
Succeeded == {i \in Indices : job_result[i] # NoneVal}

\* generate_all_broll_videos has returned its list to the orchestrator
BatchReturned == "broll_paths" \in results

\* the paths of the scenes of S in ascending scene-index order
AscendingPaths(S) ==
    LET order == CHOOSE s \in [1 .. Cardinality(S) -> S] :
                   \A a, b \in 1 .. Cardinality(S) : a < b => s[a] < s[b]
    IN  [k \in 1 .. Cardinality(S) |-> PathOf(order[k])]

\* C1: generate_broll_video_with_tts never raises to its caller: whatever
\* step fails, it returns a result record, and a failure of the core path is
\* reported through a populated error field.
C1_NeverRaises ==
    /\ pc # "raised"
    /\ (pc = "returned" /\ "final_video_path" \notin results
          => "error" \in results /\ error # NoError)

\* C2: when at least one clip job succeeds, the batch returns exactly the
\* paths of the successful scenes, in ascending scene-index order, each the
\* output of its own scene's job, whatever the completion order; the
\* orchestrator goes on to assembly and reports no missing-clips error.
C2_PartialBatchOrdered ==
    BatchReturned /\ Succeeded # {}
      => /\ broll_list = AscendingPaths(Succeeded)
         /\ Len(broll_list) = N - Cardinality(Indices \ Succeeded)
         /\ error \in {NoError, "combine"}
         /\ pc \in {"check", "combine", "upload", "returned"}
         /\ (pc = "returned" /\ error = NoError
               => "final_video_path" \in results)

C2_Witness ==
    /\ pc = "combine"
    /\ N = 3
    /\ job_result[0] # NoneVal
    /\ job_result[1] = NoneVal
    /\ job_result[2] # NoneVal
    /\ broll_list = <<1, 3>>
    /\ error = NoError

\* C3: when every clip job fails, assembly is never invoked and the result
\* carries the zero-clips error and no final_video_path.
C3_AllFailedIsZeroClipsError ==
    BatchReturned /\ Succeeded = {}
      => /\ pc \in {"check", "returned"}
         /\ "final_video_path" \notin results
         /\ (pc = "returned" => error = "no_broll" /\ "error" \in results)

C3_Witness ==
    /\ pc = "returned"
    /\ N = 3
    /\ \A i \in Indices : executed[i] = 1 /\ job_result[i] = NoneVal
    /\ error = "no_broll"

\* C4: every clip work item runs at most once with at most one createTask
\* submission, a finished job's result never changes, the completion of one
\* job leaves every sibling untouched, and when the batch ends every job has
\* run exactly once to its own terminal outcome.
C4_Inv ==
    \A i \in Indices :
      /\ executed[i] <= 1
      /\ submits[i] <= 1
      /\ (job[i] \in {"done", "collected"} => executed[i] = 1)
      /\ (BatchReturned => executed[i] = 1 /\ job[i] = "collected")

C4_Step ==
    \A i \in Indices :
      /\ (job[i] \in {"done", "collected"}
            => job_result'[i] = job_result[i] /\ job'[i] # "running")
      /\ (job[i] = "running" /\ job'[i] = "done"
            => \A k \in Indices \ {i} :
                 job'[k] = job[k] /\ job_result'[k] = job_result[k])

C4_JobsIndependent == [](C4_Inv) /\ [][C4_Step]_vars

C4_Witness ==
    /\ BatchReturned
    /\ N >= 3
    /\ \E i, k \in Indices :
         /\ i < k
         /\ job_result[i] = NoneVal
         /\ job_result[k] # NoneVal
    /\ \A i \in Indices : executed[i] = 1

\* C5: at most min(max_workers, number of scenes) clip work items and at
\* most min(3, number of product scenes) image work items run at a time.
C5_BoundedConcurrency ==
    /\ Cardinality(Running(job)) <= Min(args.max_workers, N)
    /\ Cardinality(Running(img))
         <= Min(ImageWorkers, Cardinality(scenes_with_product))

C5_Witness ==
    /\ Cardinality(Running(img)) = ImageWorkers
    /\ Queued(img) # {}

\* C6: the phases never overlap: a clip work item exists only when every
\* product-image work item has finished and its result has been recorded.
C6_PhasesDoNotOverlap ==
    (\E i \in Indices : job[i] # "none")
      => \A k \in scenes_with_product :
           /\ img[k] = "collected"
           /\ image_urls[k] \in {img_result[k], ProductImage}
           /\ (img_result[k] # NoneVal => image_urls[k] = img_result[k])

C6_Witness ==
    /\ pc = "clips"
    /\ Running(job) # {}
    /\ \E i, k \in scenes_with_product :
         img_result[i] = NoneVal /\ img_result[k] # NoneVal

----------------------------------------------------------------------------
(* Properties of poll_task_until_complete *)

PollEnded == poll.pc \in {"returned", "raised"}

\* the three outcomes named for the poller
PollReturnedSuccess ==
    /\ poll.pc = "returned"
    /\ poll.out = "success"
    /\ poll.last.http = 200 /\ poll.last.code = 200
    /\ poll.last.state = "success"

PollJobFailed ==
    /\ poll.pc = "raised"
    /\ poll.out = "failed"
    /\ poll.last.http = 200 /\ poll.last.code = 200
    /\ poll.last.state = "fail"
    /\ poll.msg[1] = (IF poll.last.failMsg = "absent" THEN "Unknown error"
                      ELSE poll.last.failMsg)
    /\ poll.msg[2] = (IF poll.last.failCode = "absent" THEN "Unknown"
                      ELSE poll.last.failCode)

PollTimedOut ==
    /\ poll.pc = "raised"
    /\ poll.out = "timeout"
    /\ poll.elapsed > poll.timeout
    /\ poll.last.state \notin {"success", "fail"}

\* the fourth outcome: the error of a failed status query propagates
PollQueryFailed ==
    /\ poll.pc = "raised"
    /\ poll.out = "query_error"
    /\ poll.queries >= 1
    /\ \/ ~poll.api_key
       \/ poll.last.http \in {404, 500}
       \/ (poll.last.http = 200 /\ poll.last.code # 200)

\* while the loop goes on, no terminal state and no query error was seen
PollStillWaiting ==
    poll.pc \in {"top", "query", "sleep"}
      => /\ poll.out = "none"
         /\ poll.last.state \notin {"success", "fail"}
         /\ poll.last.http \in {Absent, 200}
         /\ (poll.pc = "query" => poll.elapsed <= poll.timeout)

C8_NotFoundIsPending ==
    poll.pc # "idle" /\ poll.last.http = 404
      => poll.pc \in {"sleep", "top", "query"} /\ poll.out = "none"

----------------------------------------------------------------------------
(* Properties of _poll_for_completion *)

C9_Inv ==
    mpoll.last.http = 404
      => \/ mpoll.pc \in {"sleep", "top", "request"} /\ mpoll.out = "none"
         \/ /\ mpoll.pc = "raised"
            /\ mpoll.out = "timeout"
            /\ mpoll.now >= mpoll.max_wait_time

C9_Step ==
    mpoll.pc = "request" /\ mpoll'.last.http = 404
      => mpoll'.pc = "sleep" /\ mpoll'.out = "none"

\* C9: a music status query answered with HTTP 404 counts as still pending:
\* the loop sleeps and polls again, and after such an answer the function
\* fails only by timing out once max_wait_time has elapsed.
C9_MusicNotFoundIsPending == [](C9_Inv) /\ [][C9_Step]_vars

C9_Witness ==
    /\ mpoll.pc = "raised"
    /\ mpoll.out = "timeout"
    /\ mpoll.requests >= 2
    /\ mpoll.notfound = mpoll.requests

----------------------------------------------------------------------------
(* Properties of job submission *)

HttpSuccess(http) == http >= 200 /\ http < 300

SubmitDone == sub.pc = "done"

SubmitFailed == sub.out = "error" /\ sub.task_id = NoneVal

\* C10 (as claimed): a submission fails on a non-success HTTP status and on
\* HTTP 200 with an embedded code other than 200; a job id is returned only
\* when both checks pass and the body has a taskId (video and music).
C10_SubmitChecksBoth ==
    SubmitDone =>
      /\ (~HttpSuccess(sub.resp.http) => SubmitFailed)
      /\ (sub.resp.http = 200 /\ sub.resp.code \notin {Absent, 200}
            => SubmitFailed)
      /\ (sub.out = "task_id"
            => /\ HttpSuccess(sub.resp.http)
               /\ sub.resp.code \in {Absent, 200}
               /\ sub.resp.taskId # NoneVal
               /\ sub.task_id = sub.resp.taskId)

\* C10 (amended): as claimed, except that the music submission treats only a
\* non-zero embedded code other than 200 as an error (an absent or zero
\* code passes), while the video submission rejects every code other than
\* 200, an absent one included.
C10_SubmitChecksBothNonZero ==
    SubmitDone =>
      /\ (sub.out = "error" <=> sub.task_id = NoneVal)
      /\ (~HttpSuccess(sub.resp.http) => SubmitFailed)
      /\ (sub.kind = "video" /\ sub.resp.code # 200 => SubmitFailed)
      /\ (sub.kind = "music" /\ sub.resp.http = 200
            /\ sub.resp.code \notin {Absent, 0, 200} => SubmitFailed)
      /\ (sub.out = "task_id"
            => /\ sub.api_key
               /\ HttpSuccess(sub.resp.http)
               /\ sub.resp.code \in
                    (IF sub.kind = "video" THEN {200} ELSE {Absent, 0, 200})
               /\ sub.resp.taskId # NoneVal
               /\ sub.task_id = sub.resp.taskId)

C10_Witness ==
    /\ SubmitDone
    /\ sub.api_key
    /\ sub.kind = "music"
    /\ sub.resp = [http |-> 200, code |-> 500, taskId |-> 1]
    /\ SubmitFailed

----------------------------------------------------------------------------
(* A run seen from its entry point: the command line (main) or a direct   *)
(* call of generate_broll_video_with_tts.  The batch and the assembly are  *)
(* single calls here; what is tracked is which credentials are present,    *)
(* which remote requests were issued, which stages were completed and      *)
(* which steps failed.                                                     *)

Credentials == [openai : BOOLEAN, eleven : BOOLEAN, kie : BOOLEAN]

Options == [eleven_labs : BOOLEAN, dry_run : BOOLEAN, enable_music : BOOLEAN,
            remove_bg : BOOLEAN, upload_supabase : BOOLEAN]

\* the steps whose failure is caught where it happens
OptionalSteps == {"bg", "music", "upload"}

\* the steps whose failure reaches the except clause of the orchestrator
CoreSteps == {"script", "tts", "clips", "combine"}

\* KIE_AI_API_KEY is looked at when video or music generation is requested
needs_kie_api(o) == (~o.dry_run) \/ o.enable_music

\* the list missing_keys built by main before it starts a run
missing_keys(k, o) ==
    (IF o.eleven_labs
       THEN (IF ~k.eleven THEN {"ELEVEN_LABS_API_KEY"} ELSE {})
       ELSE (IF ~k.openai THEN {"OPENAI_API_KEY"} ELSE {}))
    \cup (IF needs_kie_api(o) /\ ~k.kie THEN {"KIE_AI_API_KEY"} ELSE {})

\* the credentials the steps of a run read: script generation reads the
\* OpenAI key, narration the key of the chosen provider, clip generation
\* the Kie key unless the run is a dry run
required_keys(o) ==
    {"OPENAI_API_KEY"}
    \cup (IF o.eleven_labs THEN {"ELEVEN_LABS_API_KEY"} ELSE {})
    \cup (IF ~o.dry_run THEN {"KIE_AI_API_KEY"} ELSE {})

\* the credentials that are set in the environment
present_keys(k) ==
    (IF k.openai THEN {"OPENAI_API_KEY"} ELSE {})
    \cup (IF k.eleven THEN {"ELEVEN_LABS_API_KEY"} ELSE {})
    \cup (IF k.kie THEN {"KIE_AI_API_KEY"} ELSE {})

InitRun ==
    /\ pc = "run"
    /\ results = {}
    /\ error = NoError
    /\ args = [dry_run |-> FALSE, max_workers |-> 1]
    /\ product_exists = TRUE
    /\ scenes = <<>>
    /\ img = NoState
    /\ img_result = EmptySlots
    /\ image_urls = EmptySlots
    /\ job = NoState
    /\ job_result = EmptySlots
    /\ executed = Zeroes
    /\ submits = Zeroes
    /\ modes = EmptySlots
    /\ broll_paths = EmptySlots
    /\ broll_list = <<>>
    /\ poll = Idle
    /\ mpoll = Idle
    /\ sub = Idle
    /\ comb = Idle
    /\ cli = Idle
    /\ \E entry \in {"cli", "api"}, k \in Credentials, o \in Options :
         run = [pc |-> IF entry = "cli" THEN "main" ELSE "bg",
                entry |-> entry, keys |-> k, opts |-> o,
                remote |-> {}, log |-> <<>>, failed |-> {},
                error |-> NoError, results |-> {},
                musicGenerationPrompt |-> "unset", music |-> "pending",
                music_failure |-> "none",
                background_music_path |-> FALSE,
                combine_music |-> "uncalled"]

RunUnchanged ==
    UNCHANGED <<orchVars, batchVars, poll, mpoll, sub, comb, cli>>

StepAfterSkipsTTS(step) ==
    CASE step = "bg" -> "script"
      [] step = "script" -> "music"
      [] step = "tts" -> "music"
      [] step = "music" -> "clips"
      [] step = "clips" -> "combine"
      [] step = "combine" -> "upload"
      [] step = "upload" -> "returned"

\* the statement order of the try block of the orchestrator
StepAfter(step) ==
    CASE step = "bg" -> "script"
      [] step = "script" -> "tts"
      [] step = "tts" -> "music"
      [] step = "music" -> "clips"
      [] step = "clips" -> "combine"
      [] step = "combine" -> "upload"
      [] step = "upload" -> "returned"

ExceptClauseContinues(r, step, msg) ==
    [r EXCEPT !.pc = StepAfter(step), !.failed = @ \cup {step}]

\* an exception of a core step reaches the except clause of the
\* orchestrator: results["error"] = str(e); return results
ExceptClause(r, step, msg) ==
    [r EXCEPT !.pc = "returned", !.error = msg,
              !.failed = @ \cup {step},
              !.results = @ \cup {"error"}]

MusicWarningFatal(r) ==
    [r EXCEPT !.pc = "returned", !.error = "music",
              !.failed = @ \cup {"music"},
              !.results = @ \cup {"error"}]

\* an exception of the music step is caught by the try/except around it:
\* a warning is printed and the run goes on without music
MusicWarning(r) ==
    [r EXCEPT !.pc = StepAfter("music"), !.failed = @ \cup {"music"},
              !.log = Append(@, "MusicSkipped")]

\* main: the check of the API keys before a run is started
MainCheckKeys ==
    /\ run.pc = "main"
    /\ IF missing_keys(run.keys, run.opts) # {}
         THEN run' = [run EXCEPT !.pc = "exit1", !.error = "config"]
         ELSE run' = [run EXCEPT !.pc = "bg"]
    /\ RunUnchanged

\* step 0: background removal, in its own try/except
RunRemoveBackground ==
    /\ run.pc = "bg"
    /\ \/ /\ ~run.opts.remove_bg
          /\ run' = [run EXCEPT !.pc = StepAfter("bg")]
       \/ /\ run.opts.remove_bg
          /\ \E exists \in BOOLEAN, ok \in BOOLEAN :
               run' = [run EXCEPT
                         !.pc = StepAfter("bg"),
                         !.remote = IF exists THEN @ \cup {"image"} ELSE @,
                         !.failed = IF exists /\ ok THEN @ ELSE @ \cup {"bg"},
                         !.results = IF exists /\ ok
                                       THEN @ \cup {"bg_removed_image_path"}
                                       ELSE @]
    /\ RunUnchanged

\* what the script holds under the key musicGenerationPrompt
MusicPrompts == {"missing", "empty", "text"}

\* step 1: generate_broll_script, which reads OPENAI_API_KEY first
RunGenerateScript ==
    /\ run.pc = "script"
    /\ IF ~run.keys.openai
         THEN run' = ExceptClause(run, "script", "config")
         ELSE \E ok \in BOOLEAN, prompt \in MusicPrompts :
                LET sent == [run EXCEPT !.remote = @ \cup {"script"}]
                IN  IF ok
                      THEN run' = [sent EXCEPT
                                     !.pc = StepAfter("script"),
                                     !.log = Append(@, "ScriptReady"),
                                     !.musicGenerationPrompt = prompt,
                                     !.results = @ \cup {"script_path",
                                                         "script"}]
                      ELSE run' = ExceptClause(sent, "script", "script")
    /\ RunUnchanged

\* the key generate_tts_audio reads for the chosen provider
tts_key(k, o) == IF o.eleven_labs THEN k.eleven ELSE k.openai

\* step 2: generate_tts_audio
RunGenerateTTS ==
    /\ run.pc = "tts"
    /\ IF ~tts_key(run.keys, run.opts)
         THEN run' = ExceptClause(run, "tts", "config")
         ELSE \E ok \in BOOLEAN :
                LET sent == [run EXCEPT !.remote = @ \cup {"tts"}]
                IN  IF ok
                      THEN run' = [sent EXCEPT
                                     !.pc = StepAfter("tts"),
                                     !.log = Append(@, "AudioReady"),
                                     !.results = @ \cup {"tts_audio_path"}]
                      ELSE run' = ExceptClause(sent, "tts", "tts")
    /\ RunUnchanged

\* the places where the music step can fail: the ffprobe of the narration,
\* the key check of generate_music, its submission, a poll that times out,
\* a failure reported by the service, the download
MusicFailures == {"probe", "key", "submit", "timeout", "remote", "download"}

\* the failures that happen after a request was sent to the music service
AfterMusicRequest == {"submit", "timeout", "remote", "download"}

has_music_prompt_unless_missing(prompt) == prompt # "missing"

\* music_prompt = script_data.get("musicGenerationPrompt", ""); if music_prompt
has_music_prompt(prompt) == prompt = "text"

MusicFailedKeepsPath(r, failure) ==
    [r EXCEPT !.music = "failed", !.music_failure = failure,
              !.background_music_path = failure = "download",
              !.results = IF failure = "download"
                            THEN @ \cup {"background_music_path"} ELSE @]

\* an exception inside the try block of the music step: the assignments to
\* background_music_path and results["background_music_path"] are not
\* reached
MusicFailed(r, failure) ==
    [r EXCEPT !.music = "failed", !.music_failure = failure]

\* step 2.5: background music, in its own try/except
RunGenerateMusic ==
    /\ run.pc = "music"
    /\ \/ /\ ~run.opts.enable_music
          /\ run' = [run EXCEPT !.pc = StepAfter("music"),
                                !.music = "disabled",
                                !.log = Append(@, "MusicSkipped")]
       \/ /\ run.opts.enable_music
          /\ \E failure \in {"none"} \cup (MusicFailures \ {"key"}) :
               LET sent == [run EXCEPT !.remote = @ \cup {"music"}]
               IN  IF ~has_music_prompt(run.musicGenerationPrompt)
                     THEN run' = [run EXCEPT !.pc = StepAfter("music"),
                                             !.music = "no_prompt",
                                             !.log = Append(@, "MusicSkipped")]
                   ELSE IF failure = "probe"
                     THEN run' = MusicFailed(MusicWarning(run), "probe")
                   ELSE IF ~run.keys.kie
                     THEN run' = MusicFailed(MusicWarning(run), "key")
                   ELSE IF failure \in AfterMusicRequest
                     THEN run' = MusicFailed(MusicWarning(sent), failure)
                   ELSE run' = [sent EXCEPT
                                  !.pc = StepAfter("music"),
                                  !.music = "ready",
                                  !.background_music_path = TRUE,
                                  !.log = Append(@, "MusicReady"),
                                  !.results = @ \cup {"background_music_path"}]
    /\ RunUnchanged

\* step 3: generate_all_broll_videos and the check of its list.  images
\* tells whether a product image was requested; out is what the batch did:
\* its pool raised, it returned no path, or it returned some.  Outside a dry
\* run every job reads KIE_AI_API_KEY before it submits anything, so without
\* the key no job succeeds.
RunGenerateClips ==
    /\ run.pc = "clips"
    /\ \E images \in BOOLEAN, out \in {"raised", "none", "some"} :
         LET keyless == ~run.opts.dry_run /\ ~run.keys.kie
             requests == (IF images THEN {"image"} ELSE {})
                         \cup (IF run.opts.dry_run \/ keyless
                                    \/ out = "raised"
                                 THEN {} ELSE {"video"})
             sent == [run EXCEPT !.remote = @ \cup requests]
             listed == [sent EXCEPT !.results = @ \cup {"broll_paths"}]
         IN  IF out = "raised"
               THEN run' = ExceptClause(sent, "clips", "pool")
             ELSE IF out = "some" /\ ~keyless
               THEN run' = [listed EXCEPT
                              !.pc = StepAfter("clips"),
                              !.log = Append(@, "ClipsReady")]
               ELSE run' = ExceptClause(listed, "clips", "no_broll")
    /\ RunUnchanged

\* step 4: combine_broll_with_audio, called with background_music_path =
\* background_music_path, then results["final_video_path"]
RunCombine ==
    /\ run.pc = "combine"
    /\ \E ok \in BOOLEAN :
         LET called == [run EXCEPT
                          !.combine_music = IF run.background_music_path
                                              THEN "path" ELSE "none"]
         IN  IF ok
               THEN run' = [called EXCEPT
                              !.pc = StepAfter("combine"),
                              !.log = Append(@, "Assembled"),
                              !.results = @ \cup {"final_video_path"}]
               ELSE run' = ExceptClause(called, "combine", "combine")
    /\ RunUnchanged

UploadWarningRaises(r) ==
    [r EXCEPT !.pc = "returned", !.error = "upload",
              !.failed = @ \cup {"upload"},
              !.results = @ \cup {"error"}]

\* upload_to_supabase catches every exception, prints it and returns None;
\* the orchestrator then sets no supabase_url and returns its results
UploadWarning(r) ==
    [r EXCEPT !.pc = StepAfter("upload"), !.failed = @ \cup {"upload"},
              !.log = Append(@, "Done")]

\* the upload, which returns None instead of raising
RunUpload ==
    /\ run.pc = "upload"
    /\ \/ /\ ~run.opts.upload_supabase
          /\ run' = [run EXCEPT !.pc = StepAfter("upload"),
                                !.log = Append(@, "Done")]
       \/ /\ run.opts.upload_supabase
          /\ \E ok \in BOOLEAN :
               IF ok
                 THEN run' = [run EXCEPT !.pc = StepAfter("upload"),
                                         !.remote = @ \cup {"upload"},
                                         !.log = Append(@, "Uploaded"),
                                         !.results = @ \cup {"supabase_url"}]
                 ELSE run' = UploadWarning(run)
    /\ RunUnchanged

NextRun ==
    \/ MainCheckKeys
    \/ RunRemoveBackground
    \/ RunGenerateScript
    \/ RunGenerateTTS
    \/ RunGenerateMusic
    \/ RunGenerateClips
    \/ RunCombine
    \/ RunUpload

SpecRun == InitRun /\ [][NextRun]_vars

----------------------------------------------------------------------------
(* Properties of a run seen from its entry point *)

\* the run has ended: the orchestrator returned, or main returned 1
RunEnded == run.pc \in {"returned", "exit1"}

\* C11: when a credential the run requires is absent, the run ends with a
\* configuration error and has issued no remote request at all.
C11_ConfigErrorBeforeRemote ==
    (RunEnded /\ ~(required_keys(run.opts) \subseteq present_keys(run.keys)))
      => (run.error = "config" /\ run.remote = {})

\* the stages in the order of the pipeline
StageOrder ==
    <<{"ScriptReady"}, {"AudioReady"}, {"MusicReady", "MusicSkipped"},
      {"ClipsReady"}, {"Assembled"}, {"Uploaded", "Done"}>>

\* the stage log is a prefix of the pipeline order
InStageOrder(log) ==
    /\ Len(log) <= Len(StageOrder)
    /\ \A k \in 1 .. Len(log) : log[k] \in StageOrder[k]

\* the stages of a log
StagesOf(log) == {log[k] : k \in 1 .. Len(log)}

C12_Inv ==
    run.pc \notin {"idle", "main", "exit1"} =>
      /\ InStageOrder(run.log)
      /\ ("script" \in run.results) = ("ScriptReady" \in StagesOf(run.log))
      /\ ("tts_audio_path" \in run.results)
           = ("AudioReady" \in StagesOf(run.log))
      /\ ("background_music_path" \in run.results)
           = ("MusicReady" \in StagesOf(run.log))
      /\ ("final_video_path" \in run.results)
           = ("Assembled" \in StagesOf(run.log))
      /\ ("supabase_url" \in run.results)
           = ("Uploaded" \in StagesOf(run.log))
      /\ ("Assembled" \in StagesOf(run.log) => Len(run.log) >= 5)

C12_Step ==
    run.pc \notin {"idle", "main"} =>
      \/ run'.log = run.log
      \/ \E s \in UNION {StageOrder[k] : k \in 1 .. Len(StageOrder)} :
           run'.log = Append(run.log, s)

\* C12: a run completes its stages only in the order ScriptReady,
\* AudioReady, MusicReady or MusicSkipped, ClipsReady, Assembled, Uploaded
\* or Done; one stage at a time, none twice, and none skipped on a run that
\* reaches Assembled.
C12_StagesInOrder == []C12_Inv /\ [][C12_Step]_vars

C12_Witness ==
    /\ run.pc = "returned"
    /\ run.log = <<"ScriptReady", "AudioReady", "MusicReady", "ClipsReady",
                   "Assembled", "Uploaded">>

C13_Inv ==
    run.pc \notin {"idle", "main", "exit1"} =>
      /\ (run.failed \cap CoreSteps = {} => run.error = NoError)
      /\ (run.pc = "returned" /\ run.failed \subseteq OptionalSteps
            => /\ "Assembled" \in StagesOf(run.log)
               /\ "final_video_path" \in run.results
               /\ "error" \notin run.results)

C13_Step ==
    /\ (run.pc = "bg" => run'.pc = "script")
    /\ (run.pc = "music" => run'.pc = "clips")
    /\ (run.pc = "upload" => run'.pc = "returned" /\ run'.error = NoError)

\* C13: a failure of background removal, of music generation or of the
\* upload never sets the error field and never stops the run: the next
\* stage follows, and a run whose core stages succeed ends Assembled with
\* final_video_path in its result.
C13_OptionalFailuresNotFatal == []C13_Inv /\ [][C13_Step]_vars

C13_Witness ==
    /\ run.pc = "returned"
    /\ run.failed = OptionalSteps
    /\ "final_video_path" \in run.results

\* C14: once script generation or narration generation has failed, the run
\* has returned with the error field set and without final_video_path, has
\* completed no stage after the failure and has issued no music, video or
\* upload request.
C14_ScriptAndTTSFatal ==
    \A s \in {"script", "tts"} :
      (run.pc # "idle" /\ s \in run.failed) =>
        /\ run.pc = "returned"
        /\ run.error # NoError
        /\ "error" \in run.results
        /\ "final_video_path" \notin run.results
        /\ run.log = (IF s = "script" THEN <<>> ELSE <<"ScriptReady">>)
        /\ run.remote \cap {"music", "video", "upload"} = {}

C14_Witness ==
    /\ run.pc = "returned"
    /\ run.error = "tts"
    /\ "tts" \in run.remote

----------------------------------------------------------------------------
(* combine_broll_with_audio (video_combiner.py) and its call by the        *)
(* orchestrator.  Durations are whole seconds read from ffprobe; every     *)
(* quotient the code forms is kept as an exact fraction.                   *)

MaxClips      == 3     \* clips handed to the assembly
MaxNarration  == 42    \* longest narration, in seconds
MaxSource     == 20    \* longest source clip, in seconds
MaxMusic      == 16    \* longest music track, in seconds

RECURSIVE GCD(_, _)
GCD(a, b) == IF b = 0 THEN a ELSE GCD(b, a % b)

\* the fraction n / d in lowest terms (n >= 0, d > 0)
Rat(n, d) == LET g == GCD(n, d) IN [num |-> n \div g, den |-> d \div g]

Zero == Rat(0, 1)

RLess(a, b) == a.num * b.den < b.num * a.den
RMul(a, b)  == Rat(a.num * b.num, a.den * b.den)
RDiv(a, b)  == Rat(a.num * b.den, a.den * b.num)
RAdd(a, b)  == Rat(a.num * b.den + b.num * a.den, a.den * b.den)
RMin(a, b)  == IF RLess(a, b) THEN a ELSE b

RECURSIVE RSum(_)
RSum(s) == IF s = <<>> THEN Zero ELSE RAdd(RSum(Tail(s)), Head(s))

duration_per_scene(audio_duration, n) == Rat(audio_duration, MaxClips)

\* duration_per_clip = audio_duration / len(broll_paths)
duration_per_clip(audio_duration, n) == Rat(audio_duration, n)

ShorterOrEqual(original_duration, target) == ~RLess(target, original_duration)

\* if original_duration < duration_per_clip
Shorter(original_duration, target) == RLess(original_duration, target)

\* speed_factor = original_duration / duration_per_clip
speed_factor(original_duration, target) == RDiv(original_duration, target)

SetPtsSpeedUp(factor) == factor

\* the multiplier of the filter setpts={1/speed_factor}*PTS
SetPts(factor) == RDiv(Rat(1, 1), factor)

\* what ffmpeg writes for -t target with the video filter of the clip: the
\* presentation times are multiplied by setpts when the filter is present,
\* and the output stops at target seconds
OutputDuration(original_duration, stretch, setpts, target) ==
    RMin(IF stretch THEN RMul(original_duration, setpts)
                    ELSE original_duration,
         target)

loops_needed_single(audio_duration, music_duration) == 1

loops_needed_no_extra(audio_duration, music_duration) ==
    audio_duration \div music_duration

\* loops_needed = int(audio_duration / music_duration) + 1
loops_needed(audio_duration, music_duration) ==
    (audio_duration \div music_duration) + 1

trim_duration_whole(music_duration, audio_duration) == music_duration

\* trim_duration = min(music_duration, audio_duration)
trim_duration(music_duration, audio_duration) ==
    Min(music_duration, audio_duration)

ToolRaisesNever(returncode) == FALSE

\* subprocess.run(..., check=True) and the explicit returncode tests raise
\* CalledProcessError on a non-zero exit status
ToolRaises(returncode) == returncode # 0

ExitCodes == {0, 1}

\* the clips of the scenes in survivors, as generate_all_broll_videos
\* returns them
SurvivingClips(survivors) ==
    FilterNone([i \in 0 .. MaxClips - 1 |->
                  IF i \in survivors THEN PathOf(i) ELSE NoneVal], MaxClips)

\* the function is called by the orchestrator, which has checked that the
\* list is not empty, or directly with any list
InitCombine ==
    /\ \E direct \in BOOLEAN, music \in BOOLEAN,
          survivors \in SUBSET (0 .. MaxClips - 1) :
         /\ direct \/ survivors # {}
         /\ pc = IF direct THEN "direct" ELSE "combine"
         /\ results = {"script_path", "script", "tts_audio_path",
                       "broll_paths"}
                      \cup (IF music THEN {"background_music_path"} ELSE {})
         /\ broll_list = SurvivingClips(survivors)
         /\ comb = [pc |-> "call", n |-> Cardinality(survivors),
                    background_music_path |-> music,
                    audio_duration |-> 0, target |-> Zero,
                    i |-> 0, original_duration |-> 0, stretch |-> FALSE,
                    factor |-> Zero, out |-> <<>>, filters |-> <<>>,
                    music_duration |-> 0, loops |-> 0, bed |-> 0,
                    temp_dir |-> FALSE, calls |-> 0, failed_call |-> 0,
                    step |-> "none", exc |-> "none",
                    processed_clips |-> <<>>, concat_list |-> <<>>,
                    invoked |-> {}, music_exists |-> FALSE,
                    final_audio |-> "none", final_audio_duration |-> 0]
    /\ error = NoError
    /\ args = [dry_run |-> FALSE, max_workers |-> 1]
    /\ product_exists = TRUE
    /\ scenes = <<>>
    /\ img = NoState
    /\ img_result = EmptySlots
    /\ image_urls = EmptySlots
    /\ job = NoState
    /\ job_result = EmptySlots
    /\ executed = Zeroes
    /\ submits = Zeroes
    /\ modes = EmptySlots
    /\ broll_paths = EmptySlots
    /\ poll = Idle
    /\ mpoll = Idle
    /\ sub = Idle
    /\ run = Idle
    /\ cli = Idle

CombUnchanged ==
    UNCHANGED <<orchVars, batchVars, poll, mpoll, sub, run, cli>>

\* an external tool is invoked as the step named step and exits with rc
Invoke(c, step, rc) ==
    [c EXCEPT !.calls = @ + 1, !.step = step, !.invoked = @ \cup {step},
              !.failed_call = IF rc # 0 /\ @ = 0 THEN c.calls + 1 ELSE @]

\* an exception of class exc leaves the function at once
RaiseAs(c, exc) == [c EXCEPT !.pc = "raised", !.exc = exc]

\* an exception of a failed tool run leaves the function at once
Raise(c) == RaiseAs(c, "CalledProcessError")

no_broll_never(paths) == FALSE

\* not broll_paths
no_broll(paths) == paths = <<>>

\* the call: if not broll_paths: raise ValueError
CombineCall ==
    /\ pc \in {"combine", "direct"}
    /\ comb.pc = "call"
    /\ comb' = IF no_broll(broll_list) THEN RaiseAs(comb, "ValueError")
               ELSE [comb EXCEPT !.pc = "probe_audio"]
    /\ CombUnchanged

\* audio_duration = get_audio_duration(audio_path)
ProbeAudio ==
    /\ comb.pc = "probe_audio"
    /\ \E rc \in ExitCodes, d \in 1 .. MaxNarration :
         LET c == Invoke(comb, "probe", rc)
         IN  comb' = IF ToolRaises(rc) THEN Raise(c)
                     ELSE [c EXCEPT !.pc = "mkdtemp", !.audio_duration = d]
    /\ CombUnchanged

\* temp_dir = tempfile.mkdtemp(); duration_per_clip = audio_duration / N
\* (a division by len(broll_paths) = 0 raises ZeroDivisionError)
MakeTempDir ==
    /\ comb.pc = "mkdtemp"
    /\ comb' = IF comb.n = 0
                 THEN RaiseAs([comb EXCEPT !.temp_dir = TRUE],
                              "ZeroDivisionError")
                 ELSE [comb EXCEPT
                         !.pc = "probe_clip", !.temp_dir = TRUE,
                         !.target = duration_per_clip(comb.audio_duration,
                                                      comb.n)]
    /\ CombUnchanged

\* original_duration = get_video_duration(broll_path) and the video filter
ProbeClip ==
    /\ comb.pc = "probe_clip"
    /\ \E rc \in ExitCodes, d \in 1 .. MaxSource :
         LET c == Invoke(comb, "probe", rc)
             original == Rat(d, 1)
             stretch == Shorter(original, comb.target)
         IN  comb' = IF ToolRaises(rc) THEN Raise(c)
                     ELSE [c EXCEPT
                             !.pc = "normalize",
                             !.original_duration = d,
                             !.stretch = stretch,
                             !.factor = IF stretch
                                          THEN speed_factor(original,
                                                            comb.target)
                                          ELSE Zero]
    /\ CombUnchanged

\* processed_path = temp_dir/processed_{i}.mp4, made from broll_path
processed_path(i, broll_path) == [name |-> i, source |-> broll_path]

prepend_clip(processed_clips, clip) == <<clip>> \o processed_clips

\* processed_clips.append(processed_path)
append_clip(processed_clips, clip) == Append(processed_clips, clip)

\* the ffmpeg run that scales, stretches and trims clip i
Normalize ==
    /\ comb.pc = "normalize"
    /\ \E rc \in ExitCodes :
         LET c == Invoke(comb, "normalize", rc)
             written == OutputDuration(
                          Rat(comb.original_duration, 1), comb.stretch,
                          IF comb.stretch THEN SetPts(comb.factor) ELSE Zero,
                          comb.target)
         IN  comb' = IF ToolRaises(rc) THEN Raise(c)
                     ELSE [c EXCEPT
                             !.pc = IF comb.i + 1 < comb.n THEN "probe_clip"
                                    ELSE "concat",
                             !.i = @ + 1,
                             !.out = Append(@, written),
                             !.processed_clips =
                                 append_clip(@, processed_path(
                                                  comb.i,
                                                  broll_list[comb.i + 1])),
                             !.filters = Append(@, comb.stretch),
                             !.original_duration = 0,
                             !.stretch = FALSE,
                             !.factor = Zero]
    /\ CombUnchanged

use_music_always(background_music_path, exists) == TRUE

\* if background_music_path and os.path.exists(background_music_path)
use_music(background_music_path, exists) == background_music_path /\ exists

\* the concat list and the ffmpeg run that concatenates; then the test
\* background_music_path and os.path.exists(...), and os.path.isfile(...)
Concatenate ==
    /\ comb.pc = "concat"
    /\ \E rc \in ExitCodes, exists \in BOOLEAN, isfile \in BOOLEAN :
         LET c == [Invoke(comb, "concat", rc) EXCEPT
                     !.concat_list = comb.processed_clips]
             e == [c EXCEPT !.music_exists = exists]
         IN  comb' = IF ToolRaises(rc) THEN Raise(c)
                     ELSE IF ~use_music(comb.background_music_path, exists)
                       THEN [e EXCEPT !.pc = "mux",
                                      !.final_audio = "audio_path",
                                      !.final_audio_duration =
                                          comb.audio_duration]
                     ELSE IF ~isfile THEN RaiseAs(e, "ValueError")
                     ELSE [e EXCEPT !.pc = "probe_music"]
    /\ CombUnchanged

\* music_duration = get_audio_duration(background_music_path), any failure
\* re-raised as ValueError; if music_duration <= 0: raise ValueError
ProbeMusic ==
    /\ comb.pc = "probe_music"
    /\ \E rc \in ExitCodes, d \in 0 .. MaxMusic :
         LET c == Invoke(comb, "probe", rc)
         IN  comb' = IF ToolRaises(rc) \/ d <= 0
                       THEN RaiseAs(c, "ValueError")
                     ELSE [c EXCEPT !.pc = "prepare", !.music_duration = d]
    /\ CombUnchanged

\* the ffmpeg run that loops or trims the music
PrepareMusic ==
    /\ comb.pc = "prepare"
    /\ \E rc \in ExitCodes :
         LET c == Invoke(comb, "prepare", rc)
             looped == comb.music_duration < comb.audio_duration
         IN  comb' = IF ToolRaises(rc) THEN Raise(c)
                     ELSE [c EXCEPT
                             !.pc = "mix",
                             !.loops = IF looped
                                         THEN loops_needed(comb.audio_duration,
                                                           comb.music_duration)
                                         ELSE 0,
                             !.bed = IF looped THEN comb.audio_duration
                                     ELSE trim_duration(comb.music_duration,
                                                        comb.audio_duration)]
    /\ CombUnchanged

\* amix=inputs=2:duration=first: the mix is as long as its first input
amix_duration(first, second) == first

\* the ffmpeg run that mixes narration and music
Mix ==
    /\ comb.pc = "mix"
    /\ \E rc \in ExitCodes :
         LET c == Invoke(comb, "mix", rc)
         IN  comb' = IF ToolRaises(rc) THEN Raise(c)
                     ELSE [c EXCEPT !.pc = "mux",
                                    !.final_audio = "mixed_audio",
                                    !.final_audio_duration =
                                        amix_duration(comb.audio_duration,
                                                      comb.bed)]
    /\ CombUnchanged

\* the ffmpeg run that writes the final video
Mux ==
    /\ comb.pc = "mux"
    /\ \E rc \in ExitCodes :
         LET c == Invoke(comb, "mux", rc)
         IN  comb' = IF ToolRaises(rc) THEN Raise(c)
                     ELSE [c EXCEPT !.pc = "cleanup"]
    /\ CombUnchanged

\* shutil.rmtree(temp_dir), the last statement of the function
Cleanup ==
    /\ comb.pc = "cleanup"
    /\ comb' = [comb EXCEPT !.pc = "returned", !.temp_dir = FALSE]
    /\ CombUnchanged

\* the call returned: results["final_video_path"] = final_video_path
CombineReturned ==
    /\ pc = "combine"
    /\ comb.pc = "returned"
    /\ results' = results \cup {"final_video_path"}
    /\ pc' = "upload"
    /\ UNCHANGED <<error, args, product_exists, scenes>>
    /\ UNCHANGED batchVars
    /\ UNCHANGED auxVars

\* the call raised: the except clause of the orchestrator
CombineRaised ==
    /\ pc = "combine"
    /\ comb.pc = "raised"
    /\ Fail("combine")
    /\ UNCHANGED <<args, product_exists, scenes>>
    /\ UNCHANGED batchVars
    /\ UNCHANGED auxVars

NextCombine ==
    \/ CombineCall
    \/ ProbeAudio
    \/ MakeTempDir
    \/ ProbeClip
    \/ Normalize
    \/ Concatenate
    \/ ProbeMusic
    \/ PrepareMusic
    \/ Mix
    \/ Mux
    \/ Cleanup
    \/ CombineReturned
    \/ CombineRaised
    \/ Upload

SpecCombine == InitCombine /\ [][NextCombine]_vars

----------------------------------------------------------------------------
(* Properties of the assembly *)

One == Rat(1, 1)

\* the smallest whole number not below a / b
Ceil(a, b) == (a + b - 1) \div b

\* the timing plan has been made: the function is past mkdtemp
Planned == comb.pc # "idle" /\ (comb.temp_dir \/ comb.pc = "returned")

\* the music bed has been prepared
Prepared == comb.pc # "idle" /\ comb.bed > 0

\* the music was shorter than the narration and has been looped
Looped == Prepared /\ comb.music_duration < comb.audio_duration

\* C15: the target duration per clip is D / N; every normalized clip comes
\* out exactly that long, whether it was stretched or trimmed; and once all
\* N clips are normalized their output durations add up to D.
C15_ClipsFillNarration ==
    Planned =>
      /\ RMul(comb.target, Rat(comb.n, 1)) = Rat(comb.audio_duration, 1)
      /\ Len(comb.out) = comb.i
      /\ \A k \in 1 .. Len(comb.out) : comb.out[k] = comb.target
      /\ (Len(comb.out) = comb.n
            => RSum(comb.out) = Rat(comb.audio_duration, 1))

C15_Witness ==
    /\ comb.pc = "concat"
    /\ comb.n = 3
    /\ comb.audio_duration = 30
    /\ comb.filters = <<TRUE, FALSE, FALSE>>

\* C16: a stretch factor exists for a clip exactly when its source duration
\* is strictly below the target; it is source/target, lies strictly between
\* 0 and 1, and multiplies the presentation times by more than 1 (slower);
\* a clip at or above the target gets no factor and is cut to the target at
\* its own speed.  Narration 30 with clips 8, 12, 20: target 10, factor 4/5
\* for the first clip only.
C16_StretchOnlyWhenShorter ==
    /\ comb.pc = "normalize" =>
         LET original == Rat(comb.original_duration, 1)
         IN  /\ comb.stretch = RLess(original, comb.target)
             /\ comb.stretch =>
                  /\ RLess(Zero, comb.factor)
                  /\ RLess(comb.factor, One)
                  /\ RMul(comb.factor, comb.target) = original
                  /\ RLess(One, SetPts(comb.factor))
             /\ ~comb.stretch =>
                  /\ comb.factor = Zero
                  /\ OutputDuration(original, FALSE, Zero, comb.target)
                       = comb.target
    /\ LET target == duration_per_clip(30, 3)
       IN  /\ target = Rat(10, 1)
           /\ Shorter(Rat(8, 1), target)
           /\ speed_factor(Rat(8, 1), target) = Rat(4, 5)
           /\ ~Shorter(Rat(12, 1), target)
           /\ ~Shorter(Rat(20, 1), target)

C16_Witness ==
    /\ comb.pc = "normalize"
    /\ comb.audio_duration = 30
    /\ comb.n = 3
    /\ comb.i = 0
    /\ comb.original_duration = 8
    /\ comb.factor = Rat(4, 5)

\* C17 as stated: a looped music bed is prepared with a loop count of
\* ceil(narration / music) + 1.
C17_LoopsCeilPlusOne ==
    Looped => comb.loops = Ceil(comb.audio_duration, comb.music_duration) + 1

\* C17 amended: the loop count is floor(narration / music) + 1, which is
\* ceil(narration / music) when the music does not divide the narration
\* evenly and ceil(narration / music) + 1 only when it does; the loops always
\* cover the narration; for music 15 and narration 42 the count is 3.
C17_LoopsFloorPlusOne ==
    /\ Looped =>
         LET a == comb.audio_duration
             m == comb.music_duration
         IN  /\ comb.loops = (a \div m) + 1
             /\ (a % m # 0 => comb.loops = Ceil(a, m))
             /\ (a % m = 0 => comb.loops = Ceil(a, m) + 1)
             /\ comb.loops * m > a
    /\ loops_needed(42, 15) = 3

C17_Witness ==
    /\ Looped
    /\ comb.audio_duration = 42
    /\ comb.music_duration = 15
    /\ comb.loops = 3

\* C18: once the music bed is prepared, the duration requested for it is
\* the narration duration, never more, whether the music was shorter than,
\* equal to or longer than the narration.
C18_BedMatchesNarration ==
    Prepared =>
      /\ comb.bed <= comb.audio_duration
      /\ comb.bed = comb.audio_duration

C18_Witness ==
    /\ Prepared
    /\ comb.music_duration > comb.audio_duration
    /\ comb.pc = "returned"

\* C19: when combine_broll_with_audio has ended, by returning or by
\* raising, its temporary directory no longer exists.
C19_TempDirRemoved ==
    comb.pc \in {"returned", "raised"} => ~comb.temp_dir

\* C20: once an external tool has exited non-zero, it is the last tool the
\* assembly invoked, the function has raised, and the orchestrator never
\* sets final_video_path and returns with the error field set.
C20_FailFast ==
    (comb.pc # "idle" /\ comb.failed_call # 0) =>
      /\ comb.calls = comb.failed_call
      /\ comb.pc = "raised"
      /\ pc \in {"combine", "direct", "returned"}
      /\ "final_video_path" \notin results
      /\ (pc = "returned" => error # NoError /\ "error" \in results)

C20_Witness ==
    /\ comb.failed_call # 0
    /\ comb.step = "mix"
    /\ pc = "returned"
    /\ error = "combine"
    /\ "final_video_path" \notin results

----------------------------------------------------------------------------
(* Properties of the result record *)

C30_Inv ==
    run.pc = "returned" =>
      /\ ("error" \in run.results) # ("final_video_path" \in run.results)
      /\ ("error" \in run.results) = (run.error # NoError)
      /\ ("error" \notin run.results => "Assembled" \in StagesOf(run.log))

C30_Step ==
    (run.pc # "idle" /\ "final_video_path" \in run.results)
      => /\ run'.error = NoError
         /\ "error" \notin run'.results
         /\ "final_video_path" \in run'.results

\* C30: a returned result record holds exactly one of the keys error and
\* final_video_path; once final_video_path is set no later step, a failing
\* upload included, sets error; and a record without error comes from a run
\* that was assembled.
C30_ErrorXorFinalVideo == []C30_Inv /\ [][C30_Step]_vars

C30_Witness ==
    /\ run.pc = "returned"
    /\ "upload" \in run.failed
    /\ "final_video_path" \in run.results
    /\ "error" \notin run.results

----------------------------------------------------------------------------
(* Properties of the script step *)

\* C27: a script the orchestrator accepted has exactly num_scenes scenes;
\* an answer with another number of scenes makes script generation fail,
\* and the run returns with the error field set before narration, music,
\* image or clip generation has started.
C27_SceneCountEnforced ==
    /\ ("script" \in results => Len(scenes) = args.num_scenes)
    /\ (error = "scene_count" =>
          /\ pc = "returned"
          /\ "error" \in results
          /\ results \cap {"script", "script_path", "tts_audio_path",
                           "background_music_path", "broll_paths",
                           "final_video_path"} = {}
          /\ scenes = <<>>
          /\ img = NoState
          /\ job = NoState)

C27_Witness ==
    /\ pc = "returned"
    /\ error = "scene_count"
    /\ args.num_scenes = MaxScenes

----------------------------------------------------------------------------
(* Properties of the files and of the result collection of a batch *)

\* the work items a batch can have: one image job and one clip job per scene
WorkItems == {"image", "clip"} \X Slots

\* the file a work item writes when its clock shows timestamp
FileOf(item, dry_run, timestamp) ==
    IF item[1] = "image" THEN product_image_file(item[2], timestamp)
    ELSE clip_file(item[2], dry_run, timestamp)

\* per mode, the pairs of different work items that write the same file
\* for some pair of timestamps (a table, computed once)
SameFile ==
    [dry_run \in BOOLEAN |->
       {q : q \in {p \in WorkItems \X WorkItems :
                     /\ p[1] # p[2]
                     /\ \E ta, tb \in Timestamps :
                          FileOf(p[1], dry_run, ta) = FileOf(p[2], dry_run, tb)}}]
    @@ [dry_run \in {} |-> {}]

\* the work item has been started
ItemStarted(item) ==
    /\ item[2] \in Indices
    /\ IF item[1] = "image" THEN img[item[2]] \notin {"none", "queued"}
       ELSE executed[item[2]] > 0

\* C22: whatever the timestamps, equal ones included, two different work
\* items of one batch never write the same file of the output directory.
C22_DistinctFilesInRun ==
    \A p \in SameFile[args.dry_run] : ~(ItemStarted(p[1]) /\ ItemStarted(p[2]))

C22_Witness ==
    /\ N >= 2
    /\ img[0] = "collected"
    /\ executed[0] = 1
    /\ executed[1] = 1
    /\ job[0] = "running"
    /\ job[1] = "running"

C24_Inv ==
    /\ \A i \in Indices :
         /\ broll_paths[i] \in {NoneVal, PathOf(i)}
         /\ (broll_paths[i] # NoneVal
               => broll_paths[i] = job_result[i] /\ job[i] = "collected")
    /\ \A i \in Slots \ Indices : broll_paths[i] = NoneVal

C24_Step ==
    /\ \A i \in Slots :
         broll_paths'[i] # broll_paths[i] =>
           /\ broll_paths[i] = NoneVal
           /\ job[i] = "done"
           /\ job'[i] = "collected"
           /\ \A k \in Slots \ {i} : broll_paths'[k] = broll_paths[k]
    /\ (pc = "images" /\ pc' = "images") =>
         \A i \in Slots :
           image_urls'[i] # image_urls[i] =>
             /\ image_urls[i] = NoneVal
             /\ image_urls'[i] = img_result[i]
             /\ img[i] = "done"
             /\ img'[i] = "collected"
             /\ \A k \in Slots \ {i} : image_urls'[k] = image_urls[k]

\* C24: slot i of the result collection only ever receives the result of
\* the job of scene i, receives it at most once, and is written only by the
\* collecting loop of the main thread when it collects that job: no step of
\* a worker changes the collection.
C24_SlotsWrittenOnceByOwner == []C24_Inv /\ [][C24_Step]_vars

C24_Witness ==
    /\ N >= 2
    /\ broll_paths[1] = PathOf(1)
    /\ broll_paths[0] = NoneVal
    /\ job[0] = "running"

----------------------------------------------------------------------------
(* Properties of the concat list, the final audio and the empty input *)

\* the source clips of the entries of a list of processed clips, in order
SourcesOf(clips) == [k \in 1 .. Len(clips) |-> clips[k].source]

\* the concat list has been written
ConcatWritten == "concat" \in comb.invoked

\* C21: the concat list names one processed clip per surviving clip, in the
\* order of the list generate_all_broll_videos returned, which is the
\* ascending order of the scene indices.
C21_ConcatInSceneOrder ==
    ConcatWritten =>
      /\ SourcesOf(comb.concat_list) = broll_list
      /\ \A j, k \in 1 .. Len(comb.concat_list) :
           j < k => /\ comb.concat_list[j].source < comb.concat_list[k].source
                    /\ comb.concat_list[j].name < comb.concat_list[k].name

C21_Witness ==
    /\ comb.pc = "returned"
    /\ MaxClips >= 3
    /\ SourcesOf(comb.concat_list) = <<PathOf(0), PathOf(2)>>

\* C28: the music is prepared and mixed only if a music path was given and
\* the file exists; if not, neither step is invoked and the mux step gets
\* the narration file; the audio the mux step gets is as long as the
\* narration.
C28_MusicOnlyWhenPresent ==
    /\ (comb.pc # "idle" /\ comb.invoked \cap {"prepare", "mix"} # {})
         => comb.background_music_path /\ comb.music_exists
    /\ "mux" \in comb.invoked =>
         /\ comb.final_audio_duration = comb.audio_duration
         /\ IF comb.background_music_path /\ comb.music_exists
              THEN /\ comb.final_audio = "mixed_audio"
                   /\ {"prepare", "mix"} \subseteq comb.invoked
              ELSE /\ comb.final_audio = "audio_path"
                   /\ comb.invoked \cap {"prepare", "mix"} = {}

C28_Witness ==
    /\ comb.pc = "returned"
    /\ comb.background_music_path
    /\ ~comb.music_exists
    /\ comb.final_audio = "audio_path"
    /\ comb.audio_duration = MaxNarration

\* C29: a call with an empty clip list raises ValueError at once: no
\* duration is probed, no temporary directory is made, no tool is invoked
\* and no target duration is computed.
C29_EmptyListRejected ==
    (comb.pc \notin {"idle", "call"} /\ broll_list = <<>>) =>
      /\ comb.pc = "raised"
      /\ comb.exc = "ValueError"
      /\ comb.calls = 0
      /\ comb.invoked = {}
      /\ ~comb.temp_dir
      /\ comb.audio_duration = 0
      /\ comb.target = Zero

C29_Witness ==
    /\ pc = "direct"
    /\ broll_list = <<>>
    /\ comb.pc = "raised"
    /\ comb.exc = "ValueError"

----------------------------------------------------------------------------
(* main(): the command-line entry point                                    *)
(*                                                                         *)
(* main() checks the API keys, then either starts one run or, with         *)
(* --all-prompts, one concurrent run per prompt file, all with the same    *)
(* output directory.  A run is followed through the files it writes; each  *)
(* run has one scene (scene index 0) and its batch is one step.  The clock *)
(* counts the seconds the timestamps are formatted from.                   *)

MaxPrompts == 2    \* prompt files found in the prompts directory

Prompts == 1 .. MaxPrompts

NoExit == -1

\* product_bg_rm.png
bg_removed_file ==
    [name |-> "product_bg_rm", prompt |-> 0, scene |-> 0, stamp |-> 0]

\* broll_script_{timestamp}.json
script_file(timestamp) ==
    [name |-> "broll_script", prompt |-> 0, scene |-> 0, stamp |-> timestamp]

\* tts_audio_{timestamp}.mp3
tts_file(timestamp) ==
    [name |-> "tts_audio", prompt |-> 0, scene |-> 0, stamp |-> timestamp]

\* final_{prompt_name}_{timestamp}.mp4
final_file(prompt_name, timestamp) ==
    [name |-> "final", prompt |-> prompt_name, scene |-> 0,
     stamp |-> timestamp]

\* the files a run writes in a step: timestamp is the one the run took
\* when it started, now is the second the step is executed in; the step
\* "clips" is the call of generate_all_broll_videos, which writes the
\* product image and the clip of the scene
FilesAt(step, prompt_name, timestamp, now) ==
    CASE step = "bg"     -> {bg_removed_file}
      [] step = "script" -> {script_file(timestamp)}
      [] step = "tts"    -> {tts_file(now)}
      [] step = "clips"  -> {product_image_file(0, now),
                             clip_file(0, FALSE, now)}
      [] step = "final"  -> {final_file(prompt_name, timestamp)}

\* the order of the steps of a run
StepAfterWrite(step) ==
    CASE step = "bg"     -> "script"
      [] step = "script" -> "tts"
      [] step = "tts"    -> "clips"
      [] step = "clips"  -> "final"
      [] step = "final"  -> "done"

\* the step whose failure the run survives: background removal
Survivable == {"bg"}

NoRun == [pc |-> "none", timestamp |-> 0, files |-> {}, outcome |-> "none"]

InitMain ==
    /\ pc = "main"
    /\ results = {}
    /\ error = NoError
    /\ args = [dry_run |-> FALSE, max_workers |-> 1]
    /\ product_exists = TRUE
    /\ scenes = <<>>
    /\ img = NoState
    /\ img_result = EmptySlots
    /\ image_urls = EmptySlots
    /\ job = NoState
    /\ job_result = EmptySlots
    /\ executed = Zeroes
    /\ submits = Zeroes
    /\ modes = EmptySlots
    /\ broll_paths = EmptySlots
    /\ broll_list = <<>>
    /\ poll = Idle
    /\ mpoll = Idle
    /\ sub = Idle
    /\ run = Idle
    /\ comb = Idle
    /\ \E all_prompts \in BOOLEAN, remove_bg \in BOOLEAN,
          new_prompt \in BOOLEAN :
         /\ all_prompts => ~new_prompt
         /\ cli = [pc |-> "keys", all_prompts |-> all_prompts,
                   remove_bg |-> remove_bg, new_prompt |-> new_prompt,
                   prompt_files |-> 0, clock |-> 0,
                   runs |-> [r \in Prompts |-> NoRun],
                   all_results |-> <<>>, exit |-> NoExit]

CliUnchanged ==
    UNCHANGED <<orchVars, batchVars, poll, mpoll, sub, run, comb>>

\* return 1
Return1(c) == [c EXCEPT !.pc = "returned", !.exit = 1]

\* the check of the API keys: if missing_keys: return 1
CliCheckKeys ==
    /\ cli.pc = "keys"
    /\ \E missing \in BOOLEAN :
         cli' = IF missing THEN Return1(cli)
                ELSE [cli EXCEPT !.pc = IF cli.all_prompts THEN "prompts"
                                        ELSE "new_prompt"]
    /\ CliUnchanged

\* --all-prompts: the prompts directory and its *.txt files; return 1 when
\* the directory is missing or holds no prompt file
CliFindPrompts ==
    /\ cli.pc = "prompts"
    /\ \E found \in 0 .. MaxPrompts :
         cli' = IF found = 0 THEN Return1(cli)
                ELSE [cli EXCEPT !.pc = "submit", !.prompt_files = found]
    /\ CliUnchanged

\* --all-prompts: one generate_broll_video_with_tts per prompt file is
\* submitted to a pool of len(prompt_files) threads
CliSubmitAll ==
    /\ cli.pc = "submit"
    /\ cli' = [cli EXCEPT
                 !.pc = "collect",
                 !.runs = [r \in Prompts |->
                             IF r <= cli.prompt_files
                               THEN [NoRun EXCEPT !.pc = "queued"]
                               ELSE NoRun]]
    /\ CliUnchanged

\* --new-prompt: generate_themed_prompt and save_prompt_template in a
\* try/except that returns 1
CliNewPrompt ==
    /\ cli.pc = "new_prompt"
    /\ \E ok \in BOOLEAN :
         cli' = IF cli.new_prompt /\ ~ok THEN Return1(cli)
                ELSE [cli EXCEPT !.pc = "single"]
    /\ CliUnchanged

\* single mode: the call of generate_broll_video_with_tts
CliCallSingle ==
    /\ cli.pc = "single"
    /\ cli.runs[1].pc = "none"
    /\ cli' = [cli EXCEPT !.runs[1].pc = "queued"]
    /\ CliUnchanged

\* a run that has started and not ended
Active(r) == cli.runs[r].pc \notin {"none", "queued", "done", "collected"}

\* a second passes
Tick ==
    /\ cli.pc \in {"collect", "single"}
    /\ \E r \in Prompts : cli.runs[r].pc = "queued" \/ Active(r)
    /\ cli.clock < MaxStamp
    /\ cli' = [cli EXCEPT !.clock = @ + 1]
    /\ CliUnchanged

\* the first statements of a run: os.makedirs, outside the try block, and
\* timestamp = datetime.now().strftime("%Y%m%d_%H%M%S")
RunBegin(r) ==
    /\ cli.runs[r].pc = "queued"
    /\ \E ok \in BOOLEAN :
         cli' = IF ok
                  THEN [cli EXCEPT
                          !.runs[r].pc = IF cli.remove_bg THEN "bg"
                                         ELSE "script",
                          !.runs[r].timestamp = cli.clock]
                  ELSE [cli EXCEPT !.runs[r].pc = "done",
                                   !.runs[r].outcome = "raised"]
    /\ CliUnchanged

\* one step of a run: it writes its files, or fails; a failure ends the run
\* with the error field set unless the step is survivable.  The field files
\* holds what a running run has written; it is emptied when the run ends,
\* since only running runs are compared
RunWrite(r) ==
    /\ Active(r)
    /\ \E ok \in BOOLEAN :
         LET this == cli.runs[r]
             step == this.pc
             written == FilesAt(step, r, this.timestamp, cli.clock)
             next == StepAfterWrite(step)
         IN  cli' =
               IF ok
                 THEN [cli EXCEPT
                         !.runs[r].pc = next,
                         !.runs[r].files = IF next = "done" THEN {}
                                           ELSE @ \cup written,
                         !.runs[r].timestamp = IF next = "done" THEN 0
                                               ELSE @,
                         !.runs[r].outcome = IF next = "done" THEN "ok"
                                             ELSE @]
               ELSE IF step \in Survivable
                 THEN [cli EXCEPT !.runs[r].pc = next]
               ELSE [cli EXCEPT !.runs[r].pc = "done",
                                !.runs[r].files = {},
                                !.runs[r].timestamp = 0,
                                !.runs[r].outcome = "error"]
    /\ CliUnchanged

\* the entry main() keeps for a run: the returned record, or {"error": ...}
\* for a run that raised
ResultOf(r, outcome) == [prompt |-> r, error |-> outcome # "ok"]

\* --all-prompts: the as_completed loop
CliCollect(r) ==
    /\ cli.pc = "collect"
    /\ cli.runs[r].pc = "done"
    /\ cli' = [cli EXCEPT
                 !.runs[r].pc = "collected",
                 !.all_results = Append(@, ResultOf(r, cli.runs[r].outcome))]
    /\ CliUnchanged

exit_code_any_success(all_results) ==
    IF \E k \in 1 .. Len(all_results) : ~all_results[k].error THEN 0 ELSE 1

\* return 0 if all("error" not in r for _, r in all_results) else 1
exit_code(all_results) ==
    IF \A k \in 1 .. Len(all_results) : ~all_results[k].error THEN 0 ELSE 1

\* --all-prompts: the pool is left when every run has ended
CliReturnAll ==
    /\ cli.pc = "collect"
    /\ \A r \in Prompts : cli.runs[r].pc \in {"none", "collected"}
    /\ cli' = [cli EXCEPT !.pc = "returned",
                          !.exit = exit_code(cli.all_results)]
    /\ CliUnchanged

\* single mode: if "error" in results: return 1, else return 0; an
\* exception of the run leaves main()
CliReturnSingle ==
    /\ cli.pc = "single"
    /\ cli.runs[1].pc = "done"
    /\ cli' = IF cli.runs[1].outcome = "raised"
                THEN [cli EXCEPT !.pc = "raised", !.runs[1].pc = "collected"]
                ELSE [cli EXCEPT
                        !.pc = "returned",
                        !.runs[1].pc = "collected",
                        !.exit = IF cli.runs[1].outcome = "error" THEN 1
                                 ELSE 0]
    /\ CliUnchanged

NextMain ==
    \/ CliCheckKeys
    \/ CliFindPrompts
    \/ CliSubmitAll
    \/ CliNewPrompt
    \/ CliCallSingle
    \/ Tick
    \/ \E r \in Prompts : RunBegin(r)
    \/ \E r \in Prompts : RunWrite(r)
    \/ \E r \in Prompts : CliCollect(r)
    \/ CliReturnAll
    \/ CliReturnSingle

SpecMain == InitMain /\ [][NextMain]_vars

----------------------------------------------------------------------------
(* Properties of main() *)

\* the runs main() started
Started == {r \in Prompts : cli.runs[r].pc # "none"}

\* C23: two runs that are running at the same time have written no file
\* path in common.
C23_RunsWriteDistinctFiles ==
    cli.pc # "idle" =>
      \A a, b \in Prompts :
        (a # b /\ Active(a) /\ Active(b)) =>
          cli.runs[a].files \cap cli.runs[b].files = {}

\* C25 as stated: a run whose record has the error field makes main()
\* return non-zero, a run whose record has none makes it return 0, and with
\* --all-prompts main() returns 0 exactly when no run's record has the
\* error field.
C25_ExitReflectsError ==
    cli.pc = "returned" =>
      IF cli.all_prompts
        THEN (cli.exit = 0) =
               (\A r \in Prompts : cli.runs[r].outcome # "error")
        ELSE /\ cli.runs[1].outcome = "error" => cli.exit # 0
             /\ cli.runs[1].outcome = "ok" => cli.exit = 0

\* C25: when main() returns after its runs have ended, it returns 0
\* exactly when every run returned a record without the error field (a
\* run that raised counts as failed in --all-prompts mode); when it returns
\* before starting a run it returns 1.
C25_ExitReflectsErrorOfStartedRuns ==
    cli.pc = "returned" =>
      /\ cli.exit \in {0, 1}
      /\ IF Started = {} THEN cli.exit = 1
         ELSE (cli.exit = 0) = (\A r \in Started : cli.runs[r].outcome = "ok")
      /\ cli.all_prompts =>
           /\ Len(cli.all_results) = Cardinality(Started)
           /\ \A r \in Started : cli.runs[r].pc = "collected"

C25_Witness ==
    /\ cli.pc = "returned"
    /\ cli.all_prompts
    /\ cli.exit = 1
    /\ cli.runs[1].outcome = "error"
    /\ cli.runs[2].outcome = "ok"

----------------------------------------------------------------------------
(* Termination of poll_task_until_complete *)

\* the sleeps the loop has completed
PollSleeps == IF poll.pc = "sleep" THEN poll.queries - 1 ELSE poll.queries

\* every status query so far took no time
QueriesTookNoTime == poll.now = PollSleeps * poll.poll_interval

\* floor(timeout / poll_interval) + 1
MaxQueries == (poll.timeout \div poll.poll_interval) + 1

C33_Inv ==
    /\ poll.queries <= MaxQueries
    /\ (poll.pc = "query" => poll.now <= poll.timeout)
    /\ (poll.pc = "raised" /\ poll.out = "timeout" /\ QueriesTookNoTime
          => poll.queries = MaxQueries)

C33_Step ==
    /\ PollEnded => poll' = poll
    /\ poll'.queries # poll.queries =>
         /\ poll.now <= poll.timeout
         /\ poll.last.state \notin {"success", "fail"}

\* C33: the poller always ends; it issues at most floor(timeout /
\* poll_interval) + 1 status queries, exactly that many before the timeout
\* error when the queries take no time and the job stays pending; it issues
\* no query once the elapsed time exceeds the timeout nor after a terminal
\* state was seen.
C33_PollTerminates ==
    /\ []C33_Inv
    /\ [][C33_Step]_vars
    /\ <>PollEnded

C33_Witness ==
    /\ poll.pc = "raised"
    /\ poll.out = "timeout"
    /\ QueriesTookNoTime
    /\ poll.poll_interval = 1
    /\ poll.timeout = MaxTimeout
    /\ poll.queries = MaxTimeout + 1

----------------------------------------------------------------------------
(* Outcomes of _poll_for_completion *)

MusicPollEnded == mpoll.pc \in {"returned", "raised"}

\* C34: _poll_for_completion always ends by returning: the URL of the music
\* file on success, None on a timeout or an error.
C34_ReturnsUrlOrNone ==
    MusicPollEnded =>
      /\ mpoll.pc = "returned"
      /\ (mpoll.out = "success" => mpoll.url # "none")
      /\ (mpoll.out \in {"timeout", "error"} => mpoll.url = "none")


\* the last answer was a transport-level problem
TransportProblem == mpoll.requests >= 1 /\ mpoll.last.http # 200

\* the last answer came with HTTP 200 and a failure status, or with
\* TEXT_SUCCESS and no audio URL
FailureAnswer ==
    /\ mpoll.requests >= 1
    /\ mpoll.last.http = 200
    /\ \/ mpoll.last.status \in MusicFailStatuses
       \/ mpoll.last.status = "TEXT_SUCCESS" /\ AudioUrl(mpoll.last) = "none"

\* the last answer came with HTTP 200 and an embedded code other than 200
CodeOtherThan200 ==
    /\ mpoll.requests >= 1
    /\ mpoll.last.http = 200
    /\ mpoll.last.code \notin {Absent, 200}

\* the wait goes on, or ended by the timeout after max_wait_time
WaitGoesOn ==
    \/ mpoll.pc \in {"sleep", "top", "request"} /\ mpoll.out = "none"
    \/ /\ mpoll.pc = "raised"
       /\ mpoll.out = "timeout"
       /\ mpoll.now >= mpoll.max_wait_time

\* the wait ended with an error in the iteration of the last answer
WaitEndedWithError == mpoll.pc = "raised" /\ mpoll.out = "error"

\* C35 as stated: a transport-level problem never ends the wait before
\* max_wait_time; an embedded code other than 200, a failure status or a
\* TEXT_SUCCESS answer without audio URL ends it at once with an error.
C35_TransportTolerantErrorsFatal ==
    /\ (TransportProblem => WaitGoesOn)
    /\ (FailureAnswer \/ CodeOtherThan200 => WaitEndedWithError)

\* C35: a transport-level problem never ends the wait before
\* max_wait_time; a non-zero embedded code other than 200, a failure status
\* or a TEXT_SUCCESS answer without audio URL ends it at once with an
\* error; an answer with embedded code 0 is handled by its status alone.
C35_TransportTolerantNonZeroErrorsFatal ==
    /\ (TransportProblem => WaitGoesOn)
    /\ (FailureAnswer \/ (CodeOtherThan200 /\ mpoll.last.code # 0)
          => WaitEndedWithError)
    /\ (mpoll.requests >= 1 /\ mpoll.last.http = 200 /\ mpoll.last.code = 0
        /\ ~FailureAnswer /\ mpoll.last.status # "TEXT_SUCCESS"
          => WaitGoesOn)

C35_Witness ==
    /\ WaitEndedWithError
    /\ mpoll.last.status = "TEXT_SUCCESS"
    /\ mpoll.last.suno = "nourl"
    /\ mpoll.requests = 3
    /\ mpoll.notfound = 2
    /\ mpoll.now < mpoll.max_wait_time


(***************************************************************************)
(* The music step of generate_broll_video_with_tts (SpecRun)               *)
(***************************************************************************)

\* the music step has run: it left MusicReady or MusicSkipped in the log
MusicStepDone ==
    \E i \in 1 .. Len(run.log) : run.log[i] \in {"MusicReady", "MusicSkipped"}

\* music is disabled, or the script's musicGenerationPrompt is empty or missing
NoMusicWanted ==
    \/ ~run.opts.enable_music
    \/ run.musicGenerationPrompt \in {"missing", "empty"}

\* C37: when music is disabled, or the script has an empty or missing
\* musicGenerationPrompt, no music job is submitted, the run goes through
\* MusicSkipped and never MusicReady, and the assembly is invoked with no
\* background music.
C37_NoMusicWithoutPrompt ==
    NoMusicWanted =>
        /\ "music" \notin run.remote
        /\ ~run.background_music_path
        /\ "background_music_path" \notin run.results
        /\ run.combine_music # "path"
        /\ \A i \in 1 .. Len(run.log) : run.log[i] # "MusicReady"
        /\ MusicStepDone =>
             \E i \in 1 .. Len(run.log) : run.log[i] = "MusicSkipped"

\* music is enabled, the prompt is the empty string, and the assembly was
\* invoked
C37_Witness ==
    /\ run.opts.enable_music
    /\ run.musicGenerationPrompt = "empty"
    /\ run.music = "no_prompt"
    /\ run.combine_music = "none"

C38_Inv ==
    run.music = "failed" =>
        /\ "background_music_path" \notin run.results
        /\ ~run.background_music_path
        /\ run.combine_music # "path"

C38_Step ==
    /\ (run.music # "failed" /\ run'.music = "failed") =>
           run'.results = run.results
    /\ run.music = "failed" => run.results \subseteq run'.results

\* C38: when the music step fails at any point (probe of the narration,
\* key, submission, polling timeout, remote failure, download), the result
\* holds no background_music_path, the failure changes no result field
\* written before it, later steps remove none, and the assembly is invoked
\* with background_music_path = None.
C38_MusicFailureLeavesNoTrace == []C38_Inv /\ [][C38_Step]_vars

\* the download of the generated music failed and the assembly was invoked
C38_Witness ==
    /\ run.music = "failed"
    /\ run.music_failure = "download"
    /\ run.combine_music = "none"
    /\ "tts_audio_path" \in run.results


(***************************************************************************)
(* The image each clip is made from (SpecBatch)                            *)
(***************************************************************************)

\* the clip pool exists and has received its work items
ClipPhaseBegun == pc = "clips" \/ BatchReturned

\* the image job of scene i ran and returned an image
OwnImageSucceeded(i) == img[i] = "collected" /\ img_result[i] # NoneVal

\* C36: whatever the image phase did, the clip phase submits exactly one
\* work item for every scene.  In normal mode the item of a scene gets an
\* image (image-to-video) only if the scene has include_product and its own
\* image job succeeded, and no image (text-to-video) otherwise; in a dry
\* run it gets the scene's own generated image if that job succeeded and
\* the product image otherwise.  The image is never that of another scene.
C36_OneClipItemPerSceneOwnImage ==
    /\ \A i \in Slots \ Indices : job[i] = "none" /\ executed[i] = 0
    /\ \A i \in Indices : executed[i] <= 1
    /\ ClipPhaseBegun =>
         \A i \in Indices :
           /\ job[i] # "none"
           /\ (BatchReturned => executed[i] = 1)
           /\ modes[i] =
                IF args.dry_run
                  THEN (IF OwnImageSucceeded(i) THEN img_result[i]
                        ELSE ProductImage)
                  ELSE (IF include_product(i) /\ OwnImageSucceeded(i)
                          THEN img_result[i] ELSE NoneVal)
           /\ \A k \in Indices \ {i} : modes[i] # PathOf(k)

\* a normal run of three product scenes in which the image job of the first
\* scene succeeded and that of the second failed: the second clip is
\* text-to-video although an image of the first scene exists
C36_Witness ==
    /\ ~args.dry_run
    /\ BatchReturned
    /\ N >= 3
    /\ include_product(0) /\ include_product(1) /\ ~include_product(2)
    /\ modes[0] = PathOf(0)
    /\ img_result[1] = NoneVal
    /\ modes[1] = NoneVal
    /\ modes[2] = NoneVal
    /\ \A i \in Indices : executed[i] = 1


(***************************************************************************)
(* Timing of the assembly after clip failures (SpecCombine)                *)
(***************************************************************************)

\* the clips handed to the assembly: those that survived the clip phase
Survivors == Len(broll_list)

\* C31: the target duration per clip is the narration duration divided by
\* the number of surviving clips, not by the number of scenes of the
\* script: when k < N of the N clips failed, each of the N - k survivors
\* gets narration / (N - k), which is longer than narration / N, and the
\* normalized clips together span the whole narration.
C31_TargetFromSurvivors ==
    (Planned /\ Survivors > 0) =>
      /\ comb.target = Rat(comb.audio_duration, Survivors)
      /\ (Survivors < MaxClips =>
            RLess(Rat(comb.audio_duration, MaxClips), comb.target))
      /\ Len(comb.out) <= Survivors
      /\ (comb.pc = "returned" =>
            /\ Len(comb.out) = Survivors
            /\ RSum(comb.out) = Rat(comb.audio_duration, 1))

\* the clip of the second of three scenes failed; the two survivors share a
\* narration of 30 seconds, 15 each
C31_Witness ==
    /\ comb.pc = "returned"
    /\ broll_list = <<PathOf(0), PathOf(2)>>
    /\ comb.audio_duration = 30
    /\ comb.out = <<Rat(15, 1), Rat(15, 1)>>

\* C32: whenever the music is shorter than the narration (and longer than
\* 0), the loop count times the music duration exceeds the narration
\* duration, so the looped music covers the whole narration and the bed,
\* cut to the narration duration, does not end early.
C32_LoopsCoverNarration ==
    (Prepared /\ 0 < comb.music_duration
              /\ comb.music_duration < comb.audio_duration) =>
      /\ comb.loops * comb.music_duration > comb.audio_duration
      /\ comb.bed <= comb.loops * comb.music_duration
      /\ comb.bed = comb.audio_duration

\* the music divides the narration evenly: 30 = 2 * 15, three loops
C32_Witness ==
    /\ Prepared
    /\ comb.audio_duration = 30
    /\ comb.music_duration = 15
    /\ comb.loops = 3
    /\ comb.pc = "returned"


(***************************************************************************)
(* Termination of generate_broll_video_with_tts (SpecFair)                 *)
(***************************************************************************)

\* the run has left the function: by a return or by an exception
LeftFunction == pc \in {"returned", "raised"}

\* every fair run leaves the function; the polls inside the clip and music
\* steps end by themselves (SpecPollFair), and the pools are joined once
\* every work item has ended
RunEnds == <>LeftFunction

\* C39: when every thread keeps running and every request and tool run
\* returns, every run of generate_broll_video_with_tts eventually returns
\* a result record.
C39_RunReturnsResult == <>(pc = "returned")

====
